---- MODULE Spec2Model ----
(***************************************************************************)
(* A model of the request filter (src/src/transforms/FilterToSchema.ts),   *)
(* of the transform pipeline that drives it and of the default merged      *)
(* resolver (src/src/stitching/defaultMergedResolver.ts).                   *)
(*                                                                         *)
(* A query document is a sequence of definitions.  A selection is a record *)
(*   [kind, name, arguments, selections]                                   *)
(* where kind is "Field", "InlineFragment" or "FragmentSpread"; the name   *)
(* of an inline fragment is its type condition (NoName when it has none);  *)
(* an argument is [name, variable] (NoName for a literal value).           *)
(* A GraphQLType is the sequence of its wrappers followed by the name of   *)
(* the named type, <<"NonNull", "Customer">>; the empty sequence is the    *)
(* JavaScript value undefined.                                             *)
(***************************************************************************)
EXTENDS Integers, Sequences, FiniteSets, TLC

NoName == ""
Undefined == <<>>

----------------------------------------------------------------------------
(* The target schema: the booking schema of the tests, with an interface   *)
(* and a union; it has no mutation and no subscription type.               *)

FieldDef(type, args) == [type |-> type, args |-> args]

targetSchema ==
  [ queryType |-> <<"Query">>,
    mutationType |-> Undefined,
    subscriptionType |-> Undefined,
    types |->
      [ Query |->
          [ kind |-> "Object", possible |-> {"Query"},
            fields |->
              [ customerById |-> FieldDef(<<"Customer">>, <<"id">>),
                bookingById |-> FieldDef(<<"Booking">>, <<"id">>),
                search |-> FieldDef(<<"Result">>, <<>>),
                node |-> FieldDef(<<"Node">>, <<"id">>) ] ],
        Customer |->
          [ kind |-> "Object", possible |-> {"Customer"},
            fields |->
              [ id |-> FieldDef(<<"NonNull", "ID">>, <<>>),
                name |-> FieldDef(<<"String">>, <<>>),
                address |-> FieldDef(<<"Address">>, <<>>),
                bookings |-> FieldDef(<<"List", "Booking">>, <<"limit">>) ] ],
        Booking |->
          [ kind |-> "Object", possible |-> {"Booking"},
            fields |->
              [ id |-> FieldDef(<<"NonNull", "ID">>, <<>>),
                propertyId |-> FieldDef(<<"NonNull", "ID">>, <<>>),
                address |-> FieldDef(<<"String">>, <<>>),
                customer |-> FieldDef(<<"NonNull", "Customer">>, <<>>) ] ],
        Address |->
          [ kind |-> "Object", possible |-> {"Address"},
            fields |-> [ street |-> FieldDef(<<"String">>, <<>>) ] ],
        Node |->
          [ kind |-> "Interface", possible |-> {"Customer"},
            fields |-> [ id |-> FieldDef(<<"NonNull", "ID">>, <<>>) ] ],
        Result |->
          [ kind |-> "Union", possible |-> {"Customer", "Booking"},
            fields |-> [ none |-> FieldDef(Undefined, <<>>) ] ],
        ID |-> [ kind |-> "Scalar", possible |-> {},
                 fields |-> [ none |-> FieldDef(Undefined, <<>>) ] ],
        String |-> [ kind |-> "Scalar", possible |-> {},
                     fields |-> [ none |-> FieldDef(Undefined, <<>>) ] ],
        Int |-> [ kind |-> "Scalar", possible |-> {},
                  fields |-> [ none |-> FieldDef(Undefined, <<>>) ] ] ] ]

\* schema.getType(name): the named type, or undefined
getType(schema, name) ==
  IF name \in DOMAIN schema.types THEN <<name>> ELSE Undefined

\* the meta field every composite type answers to
TypeNameMetaFieldDef == FieldDef(<<"NonNull", "String">>, <<>>)

\* a value that is no type of the schema: a string, a function, an object
NotAType(what) == <<"value", what>>

\* the kind of a named type ("Undefined" for undefined, "Value" for a value
\* that is no type)
KindOf(schema, type) ==
  IF type = Undefined THEN "Undefined"
  ELSE IF type[1] \notin DOMAIN schema.types THEN "Value"
  ELSE schema.types[type[1]].kind

\* parentType.getFields()[name], or undefined
getField(schema, type, name) ==
  IF /\ KindOf(schema, type) \in {"Object", "Interface"}
     /\ name \in DOMAIN schema.types[type[1]].fields
    THEN schema.types[type[1]].fields[name]
    ELSE Undefined

RECURSIVE resolveType(_)
resolveType(type) ==
  IF type # Undefined /\ Head(type) \in {"NonNull", "List"}
    THEN resolveType(Tail(type))
    ELSE type

isCompositeType(schema, type) ==
  KindOf(schema, type) \in {"Object", "Interface", "Union"}

doTypesOverlap(schema, typeA, typeB) ==
  schema.types[typeA[1]].possible \cap schema.types[typeB[1]].possible # {}

implementsAbstractType(schema, typeA, typeB) ==
  IF typeA = typeB THEN TRUE
  ELSE IF isCompositeType(schema, typeA) /\ isCompositeType(schema, typeB)
    THEN doTypesOverlap(schema, typeA, typeB)
    ELSE FALSE

----------------------------------------------------------------------------
(* Arrays of strings                                                        *)

RECURSIVE indexOfFrom(_, _, _)
indexOfFrom(array, item, i) ==
  IF i > Len(array) THEN 0
  ELSE IF array[i] = item THEN i
  ELSE indexOfFrom(array, item, i + 1)

\* Array.prototype.indexOf, 1-based, 0 when absent
indexOf(array, item) == indexOfFrom(array, item, 1)

\* array.splice(index, 1)
splice(array, index) ==
  SubSeq(array, 1, index - 1) \o SubSeq(array, index + 1, Len(array))

\* the names an ordinary object inherits from Object.prototype
ObjectPrototypeNames ==
  {"constructor", "toString", "toLocaleString", "valueOf", "hasOwnProperty",
   "isPrototypeOf", "propertyIsEnumerable", "__proto__", "__defineGetter__",
   "__defineSetter__", "__lookupGetter__", "__lookupSetter__"}

\* lines 330-335: cache is the ordinary object {}, so cache[item] is truthy
\* for an item pushed before and for a name that cache inherits
RECURSIVE uniqueFrom(_, _)
uniqueFrom(array, result) ==
  IF array = <<>> THEN result
  ELSE uniqueFrom(Tail(array),
                  IF /\ Head(array) \notin ObjectPrototypeNames
                     /\ indexOf(result, Head(array)) = 0
                    THEN Append(result, Head(array)) ELSE result)

\* union(a, b): the items of a then of b that cache does not hold yet, in
\* order of first occurrence
union(a, b) == uniqueFrom(a \o b, <<>>)

----------------------------------------------------------------------------
(* validFragmentsWithType is the ordinary object {}: a name is "in" it when *)
(* it is a property of its own or one it inherits, and the assignment to    *)
(* the name __proto__ makes the type object the prototype, so that the      *)
(* properties of the type object are inherited too. What a type object      *)
(* holds depends on the release of graphql-js: the package admits           *)
(* ^0.13.0 || ^14.0.0 and is developed against ^14.5.8.                     *)

GraphqlVersions == {"0.13.0", "14.5.8"}

\* the properties of a type object that are undefined on a schema built from
\* type definitions without descriptions and extensions (astNode is that of
\* the definition, a built-in scalar has none but has a description; an
\* object type has no isTypeOf); extensions is a property from 14.5.0 on
undefinedProperties(kind, version) ==
  (CASE kind = "Object" -> {"description", "isTypeOf", "extensionASTNodes"}
     [] kind = "Scalar" -> {"astNode", "extensionASTNodes"}
     [] OTHER -> {"description", "extensionASTNodes"})
    \cup (IF version = "14.5.8" THEN {"extensions"} ELSE {})

\* the other properties of a type object, its own and those of its class (an
\* interface and a union are given the resolveType of a resolver map)
definedProperties(kind, version) ==
  {"name", "constructor", "toString", "toJSON", "inspect"}
    \cup (CASE kind = "Object" -> {"astNode", "getFields", "getInterfaces"}
            [] kind = "Interface" -> {"astNode", "getFields", "resolveType"}
            [] kind = "Union" -> {"astNode", "getTypes", "resolveType"}
            [] OTHER -> {"description", "serialize", "parseValue", "parseLiteral"})
    \cup (IF version = "14.5.8"
            THEN {"toConfig"}
                   \cup (CASE kind = "Object" -> {"_fields", "_interfaces"}
                           [] kind = "Interface" -> {"_fields"}
                           [] kind = "Union" -> {"_types"}
                           [] OTHER -> {})
            ELSE IF kind = "Scalar" THEN {"_scalarConfig"} ELSE {"_typeConfig"})

\* what an object inherits whose prototype is the value given: the names of
\* Object.prototype, with __proto__ answering the prototype itself, and
\* below them the properties of a type object
inheritedFrom(schema, prototype, version) ==
  LET kind == KindOf(schema, prototype)
      typeNames == IF kind \in {"Undefined", "Value"} THEN {}
                   ELSE undefinedProperties(kind, version)
                          \cup definedProperties(kind, version)
  IN [name \in ObjectPrototypeNames \cup typeNames |->
        IF name = "__proto__" THEN prototype
        ELSE IF name \in typeNames /\ name \in undefinedProperties(kind, version)
          THEN Undefined
          ELSE NotAType(name)]

\* name in object
in(name, object) == name \in DOMAIN object.own \cup DOMAIN object.inherited

\* object[name]
read(object, name) ==
  IF name \in DOMAIN object.own THEN object.own[name]
  ELSE IF name \in DOMAIN object.inherited THEN object.inherited[name]
  ELSE Undefined

----------------------------------------------------------------------------
(* filterSelectionSet: the visitor of graphql-js run over a selection set   *)
(* with the closure state st = [typeStack, usedFragments, usedVariables].   *)
(* A visitor function returns [removed, node, st]: removed is the code's    *)
(* "return null", node is the node the traversal goes on with.              *)

Field(name, arguments, selections) ==
  [kind |-> "Field", name |-> name, arguments |-> arguments, selections |-> selections]
InlineFragment(typeCondition, selections) ==
  [kind |-> "InlineFragment", name |-> typeCondition, arguments |-> <<>>,
   selections |-> selections]
FragmentSpread(name) ==
  [kind |-> "FragmentSpread", name |-> name, arguments |-> <<>>, selections |-> <<>>]
Argument(name, variable) == [name |-> name, variable |-> variable]

\* typeStack[typeStack.length - 1]
Top(typeStack) ==
  IF typeStack = <<>> THEN Undefined ELSE typeStack[Len(typeStack)]

\* the array after typeStack.pop()
Popped(typeStack) ==
  IF typeStack = <<>> THEN <<>> ELSE SubSeq(typeStack, 1, Len(typeStack) - 1)

\* node.arguments.filter(arg => argNames.indexOf(arg.name.value) !== -1)
RECURSIVE filterArguments(_, _)
filterArguments(arguments, argNames) ==
  IF arguments = <<>> THEN <<>>
  ELSE IF indexOf(argNames, Head(arguments).name) # 0
    THEN <<Head(arguments)>> \o filterArguments(Tail(arguments), argNames)
    ELSE filterArguments(Tail(arguments), argNames)

\* the Variable nodes below a list of arguments, in document order
RECURSIVE argumentVariables(_)
argumentVariables(arguments) ==
  IF arguments = <<>> THEN <<>>
  ELSE IF Head(arguments).variable # NoName
    THEN <<Head(arguments).variable>> \o argumentVariables(Tail(arguments))
    ELSE argumentVariables(Tail(arguments))

\* the Variable nodes below a node, in document order
RECURSIVE variablesIn(_), variablesInSelections(_)
variablesIn(node) ==
  argumentVariables(node.arguments) \o variablesInSelections(node.selections)
variablesInSelections(selections) ==
  IF selections = <<>> THEN <<>>
  ELSE variablesIn(Head(selections)) \o variablesInSelections(Tail(selections))

\* [Kind.VARIABLE]: usedVariables.push(node.name.value), for each name in turn
visitVariables(st, names) ==
  [st EXCEPT !.usedVariables = @ \o names]

\* the nested visit of Field.leave: splice out one occurrence per Variable node
RECURSIVE retractVariables(_, _)
retractVariables(usedVariables, names) ==
  IF names = <<>> THEN usedVariables
  ELSE LET index == indexOf(usedVariables, Head(names))
       IN retractVariables(
            IF index # 0 THEN splice(usedVariables, index) ELSE usedVariables,
            Tail(names))

\* [Kind.FIELD].enter
enterField(schema, node, st) ==
  LET parentType == resolveType(Top(st.typeStack))
      kind == KindOf(schema, parentType)
  IN IF kind \in {"Object", "Interface"}
       THEN LET field == IF node.name = "__typename"
                           THEN TypeNameMetaFieldDef
                           ELSE getField(schema, parentType, node.name)
            IN IF field = Undefined
                 THEN [removed |-> TRUE, node |-> node, st |-> st]
                 ELSE [removed |-> FALSE,
                       node |-> [node EXCEPT
                                   !.arguments = filterArguments(@, field.args)],
                       st |-> [st EXCEPT !.typeStack = Append(@, field.type)]]
     ELSE IF kind = "Union" /\ node.name = "__typename"
       THEN [removed |-> FALSE, node |-> node,
             st |-> [st EXCEPT !.typeStack = Append(@, TypeNameMetaFieldDef.type)]]
     ELSE [removed |-> FALSE, node |-> node, st |-> st]

\* [Kind.FIELD].leave: node is the field with its edited selection set
leaveField(schema, node, st) ==
  LET currentType == Top(st.typeStack)
      resolvedType == resolveType(currentType)
      popped == [st EXCEPT !.typeStack = Popped(@)]
  IN IF /\ KindOf(schema, resolvedType) \in {"Object", "Interface"}
        /\ node.selections = <<>>
       THEN [removed |-> TRUE, node |-> node,
             st |-> [popped EXCEPT
                       !.usedVariables = retractVariables(@, variablesIn(node))]]
       ELSE [removed |-> FALSE, node |-> node, st |-> popped]

\* [Kind.FRAGMENT_SPREAD]: validFragments is the object validFragmentsWithType
visitFragmentSpread(schema, validFragments, node, st) ==
  IF in(node.name, validFragments)
    THEN LET parentType == resolveType(Top(st.typeStack))
             innerType == read(validFragments, node.name)
         IN IF ~implementsAbstractType(schema, parentType, innerType)
              THEN [removed |-> TRUE, node |-> node, st |-> st]
              ELSE [removed |-> FALSE, node |-> node,
                    st |-> [st EXCEPT !.usedFragments = Append(@, node.name)]]
    ELSE [removed |-> TRUE, node |-> node, st |-> st]

\* [Kind.INLINE_FRAGMENT].enter
enterInlineFragment(schema, node, st) ==
  IF node.name # NoName
    THEN LET innerType == getType(schema, node.name)
             parentType == resolveType(Top(st.typeStack))
         IN IF implementsAbstractType(schema, parentType, innerType)
              THEN [removed |-> FALSE, node |-> node,
                    st |-> [st EXCEPT !.typeStack = Append(@, innerType)]]
              ELSE [removed |-> TRUE, node |-> node, st |-> st]
    ELSE [removed |-> FALSE, node |-> node, st |-> st]

\* [Kind.INLINE_FRAGMENT].leave
leaveInlineFragment(node, st) ==
  [removed |-> FALSE, node |-> node, st |-> [st EXCEPT !.typeStack = Popped(@)]]

\* visit(): a node is entered, then (unless enter removed it) its arguments and
\* its selections are visited, the edits are applied and the node is left
RECURSIVE visitNode(_, _, _, _), visitSelections(_, _, _, _)

\* the leave function of the node's kind, on the node with its edited selections
leaveNode(schema, node, below) ==
  IF node.kind = "Field"
    THEN leaveField(schema, [node EXCEPT !.selections = below.selections], below.st)
    ELSE leaveInlineFragment([node EXCEPT !.selections = below.selections], below.st)

\* what follows the enter function: entered is what it returned
visitBelow(schema, validFragments, entered) ==
  IF entered.removed THEN entered
  ELSE leaveNode(schema, entered.node,
                 visitSelections(schema, validFragments, entered.node.selections,
                                 visitVariables(entered.st,
                                                argumentVariables(
                                                  entered.node.arguments))))

visitNode(schema, validFragments, node, st) ==
  IF node.kind = "FragmentSpread"
    THEN visitFragmentSpread(schema, validFragments, node, st)
  ELSE IF node.kind = "Field"
    THEN visitBelow(schema, validFragments, enterField(schema, node, st))
    ELSE visitBelow(schema, validFragments, enterInlineFragment(schema, node, st))

\* the edited array: a removed node is spliced out
applyEdit(first, rest) ==
  [selections |-> IF first.removed THEN rest.selections
                  ELSE <<first.node>> \o rest.selections,
   st |-> rest.st]

visitRest(schema, validFragments, selections, first) ==
  applyEdit(first,
            visitSelections(schema, validFragments, Tail(selections), first.st))

visitSelections(schema, validFragments, selections, st) ==
  IF selections = <<>> THEN [selections |-> <<>>, st |-> st]
  ELSE visitRest(schema, validFragments, selections,
                 visitNode(schema, validFragments, Head(selections), st))

\* the object filterSelectionSet returns (typeStack: the stack it ends with)
filterResult(visited) ==
  [selectionSet |-> visited.selections,
   usedFragments |-> visited.st.usedFragments,
   usedVariables |-> visited.st.usedVariables,
   typeStack |-> visited.st.typeStack]

filterSelectionSet(schema, type, validFragments, selectionSet) ==
  filterResult(visitSelections(schema, validFragments, selectionSet,
                               [typeStack |-> <<type>>,
                                usedFragments |-> <<>>,
                                usedVariables |-> <<>>]))

----------------------------------------------------------------------------
(* filterDocumentToSchema, one step per operation of the document and one   *)
(* step per iteration of the worklist loop of collectFragmentVariables.     *)

OperationDefinition(operation, name, directives, variableDefinitions, selectionSet) ==
  [kind |-> "OperationDefinition", operation |-> operation, name |-> name,
   directives |-> directives,
   typeCondition |-> NoName, variableDefinitions |-> variableDefinitions,
   selectionSet |-> selectionSet]
FragmentDefinition(name, typeCondition, selectionSet) ==
  [kind |-> "FragmentDefinition", operation |-> NoName, name |-> name,
   directives |-> <<>>,
   typeCondition |-> typeCondition, variableDefinitions |-> <<>>,
   selectionSet |-> selectionSet]

\* definitions.filter(def => def.kind === kind)
RECURSIVE definitionsOfKind(_, _)
definitionsOfKind(definitions, kind) ==
  IF definitions = <<>> THEN <<>>
  ELSE IF Head(definitions).kind = kind
    THEN <<Head(definitions)>> \o definitionsOfKind(Tail(definitions), kind)
    ELSE definitionsOfKind(Tail(definitions), kind)

operationsOf(doc) == definitionsOfKind(doc, "OperationDefinition")
fragmentsOf(doc) == definitionsOfKind(doc, "FragmentDefinition")

\* fragments.filter(fragment => Boolean(targetSchema.getType(typeName)))
RECURSIVE validFragmentsOf(_, _)
validFragmentsOf(schema, fragments) ==
  IF fragments = <<>> THEN <<>>
  ELSE IF getType(schema, Head(fragments).typeCondition) # Undefined
    THEN <<Head(fragments)>> \o validFragmentsOf(schema, Tail(fragments))
    ELSE validFragmentsOf(schema, Tail(fragments))

\* the type of the last of the valid fragments of the name
lastTypeOf(schema, validFragments, name) ==
  LET last == CHOOSE k \in DOMAIN validFragments :
                /\ validFragments[k].name = name
                /\ \A j \in DOMAIN validFragments :
                     validFragments[j].name = name => j <= k
  IN getType(schema, validFragments[last].typeCondition)

\* validFragmentsWithType[name] = type on the object {}, a later fragment of
\* a name overwriting; the name __proto__ is no property of its own, what is
\* assigned to it becomes the prototype of the object
validFragmentsWithTypeOf(schema, validFragments, version) ==
  LET names == {validFragments[k].name : k \in DOMAIN validFragments}
  IN [own |-> [name \in names \ {"__proto__"} |->
                 lastTypeOf(schema, validFragments, name)],
      inherited |->
        inheritedFrom(schema,
                      IF "__proto__" \in names
                        THEN lastTypeOf(schema, validFragments, "__proto__")
                        ELSE NotAType("Object.prototype"),
                      version)]

\* validFragments.find(fr => fr.name.value === name): its index, 0 when absent
RECURSIVE findFragmentFrom(_, _, _)
findFragmentFrom(validFragments, name, k) ==
  IF k > Len(validFragments) THEN 0
  ELSE IF validFragments[k].name = name THEN k
  ELSE findFragmentFrom(validFragments, name, k + 1)
findFragment(validFragments, name) == findFragmentFrom(validFragments, name, 1)

\* the root type of an operation kind
rootTypeOf(schema, operation) ==
  IF operation = "subscription" THEN schema.subscriptionType
  ELSE IF operation = "mutation" THEN schema.mutationType
  ELSE schema.queryType

\* operation.variableDefinitions.filter(v => fullUsedVariables.indexOf(v) !== -1)
RECURSIVE filterVariableDefinitions(_, _)
filterVariableDefinitions(variableDefinitions, fullUsedVariables) ==
  IF variableDefinitions = <<>> THEN <<>>
  ELSE IF indexOf(fullUsedVariables, Head(variableDefinitions)) # 0
    THEN <<Head(variableDefinitions)>>
           \o filterVariableDefinitions(Tail(variableDefinitions), fullUsedVariables)
    ELSE filterVariableDefinitions(Tail(variableDefinitions), fullUsedVariables)

----------------------------------------------------------------------------
VARIABLES
  document,               \* originalRequest.document
  pc,                     \* "idle", "filter", "collect", "done"
  operationIndex,         \* the operation operations.forEach is at
  usedFragments,          \* filterDocumentToSchema: let usedFragments
  newOperations,          \* filterDocumentToSchema: newOperations
  newFragments,           \* filterDocumentToSchema: let newFragments
  fragmentSet,            \* the names set in fragmentSet
  pending,                \* what filterSelectionSet returned for the operation
  collectUsedFragments,   \* collectFragmentVariables: usedFragments (the worklist)
  collectUsedVariables,   \* collectFragmentVariables: usedVariables
  collectNewFragments,    \* collectFragmentVariables: newFragments
  aliased,                \* the worklist is still the caller's array
  visited,                \* history: the states the worklist loop has been in
  output,                 \* the document transformRequest returns
  graphqlVersion          \* the release of graphql-js the package is installed with

\* the request objects of transformRequest
VARIABLES
  variables,              \* originalRequest.variables
  givenRequest,           \* history: originalRequest as it was at the call
  transformedRequest      \* the request transformRequest returns

requestVars == <<variables, givenRequest, transformedRequest>>

filterVars ==
  <<document, pc, operationIndex, usedFragments, newOperations, newFragments,
    fragmentSet, pending, collectUsedFragments, collectUsedVariables,
    collectNewFragments, aliased, visited, output, graphqlVersion, requestVars>>

\* a delegation running a request through its transforms and back
VARIABLES
  transforms,             \* the transforms given to the delegation
  pipelinePc,             \* "idle", "request", "filter", "execute", "response", "done"
  transformStep,          \* how many transforms the running fold has been through
  request,                \* the request, as the transforms left it
  response                \* the response, as the transforms left it

pipelineVars == <<transforms, pipelinePc, transformStep, request, response>>

\* the host engine resolving the proxied fields of delegated results
VARIABLES
  roots,                  \* the caller's delegating root fields and their results
  resolverPc,             \* "idle", "resolving", "done"
  rootIndex,              \* the root field whose delegation comes next
  tasks,                  \* the fields still to resolve, each with its parent
  call,                   \* the last call of defaultMergedResolver
  outcome,                \* what that call returned or threw
  mergedData,             \* the value of every resolved field, by response path
  mergedErrors,           \* the errors of the merged result
  engine                  \* the release of Node the program runs on

resolverVars ==
  <<roots, resolverPc, rootIndex, tasks, call, outcome, mergedData, mergedErrors,
    engine>>

\* a delegation through WrapQuery and ExtractField transforms
VARIABLES
  wrapTransforms,         \* the transforms given to the delegation
  wrapPc,                 \* "idle", "request", "thrown", "result", "done"
  wrapStep,               \* how many transforms the running fold has been through
  wrapRequest,            \* the selection set of the request's operation
  wrapResult,             \* the data of the result
  wrapApplied,            \* the transform whose hook ran last, 0 for none
  wrapBefore              \* what that hook was given

wrapVars ==
  <<wrapTransforms, wrapPc, wrapStep, wrapRequest, wrapResult, wrapApplied,
    wrapBefore>>

\* a call of concatenateTypeDefs
VARIABLES
  typeDefinitionsAry,     \* the array the call is given
  typeDefFunctions,       \* what each typeDef function returns when called
  concatenatePc,          \* "idle", "called", "returned"
  concatenated            \* what the call returned

concatenateVars ==
  <<typeDefinitionsAry, typeDefFunctions, concatenatePc, concatenated>>

\* the state of the loop of collectFragmentVariables
loopState ==
  <<collectUsedFragments, collectUsedVariables, collectNewFragments, fragmentSet>>

NoPending ==
  [selectionSet |-> <<>>, usedFragments |-> <<>>, usedVariables |-> <<>>,
   typeStack |-> <<>>]

operations == operationsOf(document)
validFragments == validFragmentsOf(targetSchema, fragmentsOf(document))
validFragmentsWithType ==
  validFragmentsWithTypeOf(targetSchema, validFragments, graphqlVersion)

\* lines 80-113: filter the operation's selection set and call
\* collectFragmentVariables with the accumulated usedFragments
FilterOperation ==
  /\ pc = "filter"
  /\ operationIndex <= Len(operations)
  /\ pending' = filterSelectionSet(
                  targetSchema,
                  rootTypeOf(targetSchema, operations[operationIndex].operation),
                  validFragmentsWithType,
                  operations[operationIndex].selectionSet)
  /\ usedFragments' = union(usedFragments, pending'.usedFragments)
  /\ collectUsedFragments' = usedFragments'
  /\ collectUsedVariables' = <<>>
  /\ collectNewFragments' = <<>>
  /\ aliased' = TRUE
  /\ visited' = {}
  /\ pc' = "collect"
  /\ UNCHANGED <<graphqlVersion, document, operationIndex, newOperations,
                 newFragments, fragmentSet, output>>
  /\ UNCHANGED requestVars
  /\ UNCHANGED <<pipelineVars, resolverVars, wrapVars, concatenateVars>>

\* a slip: the fragment is emitted without the look at fragmentSet
collectFound_Unguarded(name, fragment, rest, filtered) ==
  /\ collectUsedFragments' = union(rest, filtered.usedFragments)
  /\ collectUsedVariables' = union(collectUsedVariables, filtered.usedVariables)
  /\ aliased' = FALSE
  /\ fragmentSet' = fragmentSet \cup {name}
  /\ collectNewFragments' =
       Append(collectNewFragments,
              FragmentDefinition(name, fragment.typeCondition,
                                 filtered.selectionSet))

\* lines 156-183: the fragment of the popped name was found; filtered is its
\* selection set filtered against its own type condition
collectFound(name, fragment, rest, filtered) ==
  /\ collectUsedFragments' = union(rest, filtered.usedFragments)
  /\ collectUsedVariables' = union(collectUsedVariables, filtered.usedVariables)
  /\ aliased' = FALSE
  /\ IF name \notin fragmentSet
       THEN /\ fragmentSet' = fragmentSet \cup {name}
            /\ collectNewFragments' =
                 Append(collectNewFragments,
                        FragmentDefinition(name, fragment.typeCondition,
                                           filtered.selectionSet))
       ELSE UNCHANGED <<fragmentSet, collectNewFragments>>

\* lines 151-155: pop a name off the worklist and look its fragment up
collectNext(name, rest, found) ==
  /\ usedFragments' = IF aliased THEN rest ELSE usedFragments
  /\ IF found # 0
       THEN collectFound(name, validFragments[found], rest,
                         filterSelectionSet(
                           targetSchema,
                           getType(targetSchema, validFragments[found].typeCondition),
                           validFragmentsWithType,
                           validFragments[found].selectionSet))
       ELSE /\ collectUsedFragments' = rest
            /\ UNCHANGED <<collectUsedVariables, aliased, fragmentSet,
                           collectNewFragments>>

\* lines 150-185: one iteration of the loop of collectFragmentVariables
CollectFragment ==
  /\ pc = "collect"
  /\ Len(collectUsedFragments) # 0
  /\ collectNext(collectUsedFragments[Len(collectUsedFragments)],
                 SubSeq(collectUsedFragments, 1, Len(collectUsedFragments) - 1),
                 findFragment(validFragments,
                              collectUsedFragments[Len(collectUsedFragments)]))
  /\ visited' = visited \cup {loopState}
  /\ UNCHANGED <<graphqlVersion, document, pc, operationIndex, newOperations,
                 newFragments, pending, output>>
  /\ UNCHANGED requestVars
  /\ UNCHANGED <<pipelineVars, resolverVars, wrapVars, concatenateVars>>

\* lines 114-115: union(operationUsedVariables, collectedUsedVariables)
fullUsedVariables(operationUsedVariables, collectedUsedVariables) ==
  union(operationUsedVariables, collectedUsedVariables)

\* lines 187-191 and 114-131: collectFragmentVariables returns, the operation
\* is emitted with the variable definitions that are used
\* lines 124-131: the operation definition pushed for an operation
newOperation_Anonymous(operation, variableDefinitions, selectionSet) ==
  OperationDefinition("query", NoName, <<>>, variableDefinitions, selectionSet)
newOperation(operation, variableDefinitions, selectionSet) ==
  OperationDefinition(operation.operation, operation.name, operation.directives,
                      variableDefinitions, selectionSet)

EmitOperation ==
  /\ pc = "collect"
  /\ Len(collectUsedFragments) = 0
  /\ newOperations' =
       Append(newOperations,
              newOperation(operations[operationIndex],
                           filterVariableDefinitions(
                             operations[operationIndex].variableDefinitions,
                             fullUsedVariables(pending.usedVariables,
                                               collectUsedVariables)),
                           pending.selectionSet))
  /\ newFragments' = collectNewFragments
  /\ operationIndex' = operationIndex + 1
  /\ pc' = "filter"
  /\ UNCHANGED <<graphqlVersion, document, usedFragments, fragmentSet, pending,
                 collectUsedFragments, collectUsedVariables, collectNewFragments,
                 aliased, visited, output>>
  /\ UNCHANGED requestVars
  /\ UNCHANGED <<pipelineVars, resolverVars, wrapVars, concatenateVars>>

\* a Request: its document and the values of its variables
Request(doc, values) == [document |-> doc, variables |-> values]

\* a slip: only the values of the variables still defined are carried over
returnedRequest_DefinedVariables(originalRequest, newDocument) ==
  [originalRequest EXCEPT
     !.document = newDocument,
     !.variables =
       [name \in {n \in DOMAIN originalRequest.variables :
                    \E d \in DOMAIN newDocument :
                      n \in {newDocument[d].variableDefinitions[v] :
                               v \in DOMAIN newDocument[d].variableDefinitions}} |->
          originalRequest.variables[name]]]

\* lines 40-43: { ...originalRequest, document }
returnedRequest(originalRequest, newDocument) ==
  [originalRequest EXCEPT !.document = newDocument]

\* lines 134-137 and 40-43: the document of the returned request
ReturnDocument ==
  /\ pc = "filter"
  /\ operationIndex > Len(operations)
  /\ output' = newOperations \o newFragments
  /\ transformedRequest' = returnedRequest(Request(document, variables), output')
  /\ UNCHANGED <<variables, givenRequest>>
  /\ pc' = "done"
  /\ UNCHANGED <<graphqlVersion, document, operationIndex, usedFragments,
                 newOperations, newFragments, fragmentSet, pending, collectUsedFragments,
                 collectUsedVariables, collectNewFragments, aliased, visited>>
  /\ UNCHANGED <<pipelineVars, resolverVars, wrapVars, concatenateVars>>

----------------------------------------------------------------------------
(* The documents a request may carry.  Two families:                        *)
(*  - one operation over a selection set of every shape the visitor tells   *)
(*    apart, spreading no defined fragment;                                 *)
(*  - up to MaxOperations operations spreading the fragments F and G, which *)
(*    may spread each other.                                                *)

MaxSelections == 2
MaxFragmentSelections == 1
MaxOperations == 2

SeqsUpTo(S, n) == UNION {[1..k -> S] : k \in 0..n}

Leaf(name) == Field(name, <<>>, <<>>)
idArg == Argument("id", "id")
limitArg == Argument("limit", "limit")
badArg == Argument("bad", "limit")

\* selections below a field of type Customer
CustomerSelections ==
  { Leaf("id"), Leaf("bogus"),
    InlineFragment(NoName, <<Leaf("id")>>),
    InlineFragment("Booking", <<Leaf("id")>>),
    Field("bookings", <<limitArg>>, <<Leaf("id")>>),
    Field("bookings", <<limitArg>>, <<Leaf("bogus")>>) }

\* selections below a field of the union type Result
ResultSelections ==
  { Leaf("__typename"), Leaf("id"), InlineFragment("Customer", <<Leaf("id")>>),
    InlineFragment("Address", <<Leaf("street")>>) }

MainFields ==
  { Field("customerById", arguments, selections) :
      arguments \in {<<idArg>>, <<badArg, idArg>>},
      selections \in SeqsUpTo(CustomerSelections, MaxSelections) }
  \cup { Field("search", <<>>, selections) :
           selections \in SeqsUpTo(ResultSelections, MaxSelections) }

RootSelections ==
  { Leaf("bogus"), Leaf("__typename"),
    InlineFragment(NoName, <<Leaf("__typename")>>),
    Field("bookingById", <<idArg>>, <<Leaf("bogus")>>),
    Field("node", <<idArg>>, <<Leaf("id")>>) }

\* a main field among at most MaxSelections - 1 other root selections
ShapeSelectionSets ==
  { SubSeq(others, 1, k) \o <<main>> \o SubSeq(others, k + 1, Len(others)) :
      <<others, k>> \in { <<o, j>> \in SeqsUpTo(RootSelections, MaxSelections - 1)
                                         \X (0..(MaxSelections - 1)) : j <= Len(o) },
      main \in MainFields }

\* a query that defines one or both variables, or a mutation
\* the directives on the operation of a shape document
shapeDirectives(operation) ==
  IF operation = "mutation" THEN <<"live">> ELSE <<>>

ShapeDocuments ==
  { <<OperationDefinition(head[1], "shape", shapeDirectives(head[1]), head[2],
                          selectionSet)>> :
      head \in { <<"query", <<"id">>>>, <<"query", <<"id", "limit">>>>,
                 <<"mutation", <<"id", "limit">>>> },
      selectionSet \in ShapeSelectionSets }

\* selections of a fragment on Customer
FragmentSelectionSets ==
  (SeqsUpTo({Leaf("id"), FragmentSpread("F"), FragmentSpread("G")},
            MaxFragmentSelections) \ {<<>>})
  \cup { <<Field("bookings", <<limitArg>>, <<Leaf("id")>>)>>, <<Leaf("bogus")>> }

\* the definitions of a fragment name: none, one on Customer, one on a type
\* the target schema does not have
FragmentChoices(name) ==
  {<<>>}
  \cup { <<FragmentDefinition(name, "Customer", selectionSet)>> :
           selectionSet \in FragmentSelectionSets }
  \cup { <<FragmentDefinition(name, "Missing", <<Leaf("id")>>)>> }

SpreadingSelectionSets ==
  { <<Field("customerById", <<idArg>>, selections)>> :
      selections \in { <<Leaf("id")>>, <<FragmentSpread("F")>>,
                       <<FragmentSpread("G"), FragmentSpread("F")>> } }

\* operations named after their position, each over one of the selection sets
SpreadingOperations(selectionSets) ==
  [k \in DOMAIN selectionSets |->
     OperationDefinition("query", ToString(k),
                         IF k = 1 THEN <<>> ELSE <<"live">>,
                         <<"id", "limit">>, selectionSets[k])]

FragmentDocuments ==
  { SpreadingOperations(selectionSets) \o f \o g :
      selectionSets \in SeqsUpTo(SpreadingSelectionSets, MaxOperations) \ {<<>>},
      f \in FragmentChoices("F"), g \in FragmentChoices("G") }

\* selections on Booking, two levels below the root
BookingSelections ==
  { InlineFragment(NoName, <<Leaf("id")>>), Leaf("address"), Leaf("__typename") }

NestedDocuments ==
  { <<OperationDefinition(
        "query", "shape", <<>>, <<"id", "limit">>,
        <<Field("customerById", <<idArg>>,
                <<Field("bookings", <<limitArg>>, selections)>>)>>)>> :
      selections \in SeqsUpTo(BookingSelections, MaxSelections) \ {<<>>} }

\* selections on Customer with an inline fragment on the root type
NarrowingSelections ==
  { InlineFragment(NoName, <<Leaf("id")>>), Leaf("id"),
    InlineFragment("Query", <<Field("bookingById", <<Argument("id", "limit")>>,
                                    <<Leaf("id")>>)>>) }

NarrowingDocuments ==
  { <<OperationDefinition(
        "query", "shape", <<>>, <<"id", "limit">>,
        <<Field("customerById", <<idArg>>, selections)>>)>> :
      selections \in SeqsUpTo(NarrowingSelections, MaxSelections) \ {<<>>} }

\* documents with a variable or a fragment named like a property that
\* objects inherit
InheritedNameDocuments ==
  { <<OperationDefinition(
        "query", "shape", <<>>, <<"constructor", "id">>,
        <<Field("customerById", <<Argument("id", variable)>>, <<Leaf("id")>>)>>)>> :
      variable \in {"constructor", "id"} }
  \cup { <<OperationDefinition(
             "query", "shape", <<>>, <<"id">>,
             <<Field("customerById", <<idArg>>,
                     <<FragmentSpread(name), Leaf("id")>>)>>),
           FragmentDefinition(name, "Customer", <<Leaf("name")>>)>> :
           name \in {"toString", "F"} }
  \cup { <<OperationDefinition(
             "query", "shape", <<>>, <<"constructor", "id">>,
             <<Field("customerById", <<idArg>>,
                     <<Field("bookings", <<Argument("limit", "constructor")>>,
                             <<Leaf("id")>>),
                       Field("bookings", <<Argument("limit", "constructor")>>,
                             <<Leaf("bogus")>>)>>)>>)>> }

\* documents with a fragment named __proto__ and the spread of a name that
\* a type object has as a property, where no type encloses the spread: an
\* inline fragment without type condition has been left before it
PrototypeSpreads == {"description", "extensions", "name"}

PrototypeDocuments ==
  { <<OperationDefinition(
        "query", "shape", <<>>, <<>>,
        <<InlineFragment(NoName, <<Leaf("__typename")>>), FragmentSpread(name)>>),
      FragmentDefinition("__proto__", "Customer", <<Leaf("id")>>),
      FragmentDefinition(name, "Missing", <<Leaf("id")>>)>> :
      name \in PrototypeSpreads }

Documents ==
  ShapeDocuments \cup FragmentDocuments \cup NestedDocuments \cup NarrowingDocuments
    \cup InheritedNameDocuments \cup PrototypeDocuments

\* a FilterToSchema constructed over the target schema, not yet called
filterInit ==
  /\ document = <<>>
  /\ pc = "idle"
  /\ operationIndex = 1
  /\ usedFragments = <<>>
  /\ newOperations = <<>>
  /\ newFragments = <<>>
  /\ fragmentSet = {}
  /\ pending = NoPending
  /\ collectUsedFragments = <<>>
  /\ collectUsedVariables = <<>>
  /\ collectNewFragments = <<>>
  /\ aliased = FALSE
  /\ visited = {}
  /\ output = <<>>
  /\ graphqlVersion = "14.5.8"
  /\ variables = <<>>
  /\ givenRequest = <<>>
  /\ transformedRequest = <<>>

\* lines 35-39 and 47-78: transformRequest is called on a request and
\* filterDocumentToSchema sets out on its document
\* a value for every variable that an operation of the document defines
variablesFor(doc) ==
  [name \in UNION { {doc[k].variableDefinitions[v] :
                       v \in DOMAIN doc[k].variableDefinitions} : k \in DOMAIN doc } |->
     IF name = "id" THEN "c1" ELSE "10"]

transformRequest ==
  /\ pc = "idle"
  /\ document' \in Documents
  \* the release matters to the documents that spread a name of a type
  \* object; the others come to the same on every release
  /\ graphqlVersion' \in IF document' \in PrototypeDocuments
                          THEN GraphqlVersions ELSE {graphqlVersion}
  /\ variables' = variablesFor(document')
  /\ givenRequest' = Request(document', variables')
  /\ UNCHANGED transformedRequest
  /\ pc' = "filter"
  /\ UNCHANGED <<operationIndex, usedFragments, newOperations, newFragments,
                 fragmentSet, pending, collectUsedFragments, collectUsedVariables,
                 collectNewFragments, aliased, visited, output>>
  /\ UNCHANGED <<pipelineVars, resolverVars, wrapVars, concatenateVars>>

\* no delegation under way
pipelineInit ==
  /\ transforms = <<>>
  /\ pipelinePc = "idle"
  /\ transformStep = 0
  /\ request = <<>>
  /\ response = <<>>

\* the releases of Node in which a property of the built-in objects first
\* appears, in order; the program runs on one of them or on a release between
\* two of them, which has what the earlier of the two has
NodeReleases == <<"8.0", "10.0", "12.0", "15.0", "16.6", "16.9", "20.0", "21.0">>

Engines == {NodeReleases[k] : k \in DOMAIN NodeReleases}

\* no query under way
resolverInit ==
  /\ roots = <<>>
  /\ resolverPc = "idle"
  /\ rootIndex = 1
  /\ tasks = <<>>
  /\ call = [parent |-> [t |-> "undefined"],
             info |-> [fieldName |-> NoName, alias |-> NoName,
                       path |-> [t |-> "undefined"]]]
  /\ outcome = [kind |-> "none"]
  /\ mergedData = <<>>
  /\ mergedErrors = <<>>
  /\ engine = Head(NodeReleases)

\* no delegation through WrapQuery under way
wrapInit ==
  /\ wrapTransforms = <<>>
  /\ wrapPc = "idle"
  /\ wrapStep = 0
  /\ wrapRequest = <<>>
  /\ wrapResult = [t |-> "undefined"]
  /\ wrapApplied = 0
  /\ wrapBefore = <<>>

\* concatenateTypeDefs not yet called
concatenateInit ==
  /\ typeDefinitionsAry = <<>>
  /\ typeDefFunctions = <<>>
  /\ concatenatePc = "idle"
  /\ concatenated = <<>>

Init == filterInit /\ pipelineInit /\ resolverInit /\ wrapInit /\ concatenateInit

Next ==
  \/ transformRequest
  \/ FilterOperation
  \/ CollectFragment
  \/ EmitOperation
  \/ ReturnDocument

vars == <<filterVars, pipelineVars, resolverVars, wrapVars, concatenateVars>>

Spec == Init /\ [][Next]_vars

----------------------------------------------------------------------------
(* What the claims speak of: the documents read against the target schema.  *)

Range(f) == {f[k] : k \in DOMAIN f}

\* the definition of a field name on a named type, or undefined
declaredField(schema, parentType, name) ==
  IF name = "__typename" THEN TypeNameMetaFieldDef
  ELSE getField(schema, parentType, name)

\* the type the selections of a definition are read against
definitionType(schema, definition) ==
  IF definition.kind = "FragmentDefinition"
    THEN getType(schema, definition.typeCondition)
    ELSE rootTypeOf(schema, definition.operation)

\* the type the selections of a field are read against
fieldType(schema, parentType, name) ==
  IF declaredField(schema, parentType, name) = Undefined THEN Undefined
  ELSE resolveType(declaredField(schema, parentType, name).type)

\* the type the selections of an inline fragment are read against
narrowedType(schema, parentType, typeCondition) ==
  IF typeCondition = NoName THEN parentType ELSE getType(schema, typeCondition)

\* the field is __typename or declared on parentType, with declared arguments
FieldOnSchema(schema, parentType, node) ==
  /\ declaredField(schema, parentType, node.name) # Undefined
  /\ \A k \in DOMAIN node.arguments :
       indexOf(declaredField(schema, parentType, node.name).args,
               node.arguments[k].name) # 0

\* every field below the selections is on the schema
RECURSIVE FieldsOnSchema(_, _, _)
FieldsOnSchema(schema, parentType, selections) ==
  \A k \in DOMAIN selections :
    IF selections[k].kind = "Field"
      THEN /\ FieldOnSchema(schema, parentType, selections[k])
           /\ FieldsOnSchema(schema, fieldType(schema, parentType, selections[k].name),
                             selections[k].selections)
    ELSE IF selections[k].kind = "InlineFragment"
      THEN FieldsOnSchema(schema,
                          narrowedType(schema, parentType, selections[k].name),
                          selections[k].selections)
    ELSE TRUE

\* the names of the fragment spreads below the selections
RECURSIVE spreadNames(_)
spreadNames(selections) ==
  UNION { IF selections[k].kind = "FragmentSpread"
            THEN {selections[k].name}
            ELSE spreadNames(selections[k].selections) : k \in DOMAIN selections }

fragmentNames(doc) ==
  {doc[k].name : k \in {j \in DOMAIN doc : doc[j].kind = "FragmentDefinition"}}

\* the fragment definitions of a name
definitionsNamed(doc, name) ==
  {doc[k] : k \in {j \in DOMAIN doc : /\ doc[j].kind = "FragmentDefinition"
                                      /\ doc[j].name = name}}

\* the names spread by the fragment definitions of the given names
spreadBy(doc, names) ==
  UNION { spreadNames(doc[k].selectionSet) :
            k \in {j \in DOMAIN doc : /\ doc[j].kind = "FragmentDefinition"
                                      /\ doc[j].name \in names} }

\* the fragment names reachable from the given names, by at most n more steps
RECURSIVE reachableNames(_, _, _)
reachableNames(doc, names, n) ==
  IF n = 0 THEN names
  ELSE reachableNames(doc, names \cup spreadBy(doc, names), n - 1)

\* the fragment names an operation reaches
reachedBy(doc, operation) ==
  reachableNames(doc, spreadNames(operation.selectionSet), Len(doc))

\* the variables an operation refers to, itself or by a fragment it reaches
variablesReachedBy(doc, operation) ==
  Range(variablesInSelections(operation.selectionSet))
  \cup UNION { Range(variablesInSelections(doc[k].selectionSet)) :
                 k \in {j \in DOMAIN doc : /\ doc[j].kind = "FragmentDefinition"
                                           /\ doc[j].name \in reachedBy(doc, operation)} }

\* every variable an operation reaches is defined on it
VariablesDefined(doc) ==
  \A k \in DOMAIN doc :
    doc[k].kind = "OperationDefinition" =>
      variablesReachedBy(doc, doc[k]) \subseteq Range(doc[k].variableDefinitions)

----------------------------------------------------------------------------
(* FilterToSchema: the claims.                                              *)

\* C1: every field that remains in the returned document, in every operation
\* and every emitted fragment definition, is __typename or a field declared
\* on its parent type in the target schema, and every argument that remains
\* on it is declared on that field.
C1_RemainingFieldsOnSchema ==
  pc = "done" =>
    \A k \in DOMAIN output :
      FieldsOnSchema(targetSchema, definitionType(targetSchema, output[k]),
                     output[k].selectionSet)

\* C2: every fragment spread name that appears anywhere in the returned
\* document has a fragment definition of that name in the returned document.
C2_SpreadsHaveDefinitions ==
  pc = "done" =>
    \A k \in DOMAIN output :
      spreadNames(output[k].selectionSet) \subseteq fragmentNames(output)

\* C3: if in the input every variable an operation refers to, itself or by a
\* fragment it reaches, is defined on that operation, then so it is in the
\* returned document.
C3_VariablesStayDefined ==
  (pc = "done" /\ VariablesDefined(document)) => VariablesDefined(output)

\* no field whose type in the target schema is an object or interface type
\* (directly or wrapped) is left with an empty selection set
RECURSIVE NoEmptiedField(_, _, _)
NoEmptiedField(schema, parentType, selections) ==
  \A k \in DOMAIN selections :
    IF selections[k].kind = "Field"
      THEN /\ KindOf(schema, fieldType(schema, parentType, selections[k].name))
                \in {"Object", "Interface"}
                => selections[k].selections # <<>>
           /\ NoEmptiedField(schema,
                             fieldType(schema, parentType, selections[k].name),
                             selections[k].selections)
    ELSE IF selections[k].kind = "InlineFragment"
      THEN NoEmptiedField(schema,
                          narrowedType(schema, parentType, selections[k].name),
                          selections[k].selections)
    ELSE TRUE

\* the variables the fragment definitions of a document refer to
fragmentVariables(doc) ==
  UNION { Range(variablesInSelections(doc[k].selectionSet)) :
            k \in {j \in DOMAIN doc : doc[j].kind = "FragmentDefinition"} }

\* every field of object or interface type in the document has sub-selections
SubSelectionsGiven(schema, doc) ==
  \A k \in DOMAIN doc :
    NoEmptiedField(schema, definitionType(schema, doc[k]), doc[k].selectionSet)

\* C4: a field of object or interface type all of whose sub-selections were
\* removed is absent from the returned document, and a variable referenced
\* only in the arguments of such a field has no definition on the returned
\* operation: a definition that is kept is referred to by what remains of the
\* operation or by a fragment.
C4_EmptiedFieldAndVariableRemoved ==
  (pc = "done" /\ SubSelectionsGiven(targetSchema, document)) =>
    \A k \in DOMAIN output :
      /\ NoEmptiedField(targetSchema, definitionType(targetSchema, output[k]),
                        output[k].selectionSet)
      /\ output[k].kind = "OperationDefinition" =>
           Range(output[k].variableDefinitions)
             \subseteq (Range(variablesInSelections(output[k].selectionSet))
                          \cup fragmentVariables(document))

\* the selections are valid against parentType: a non-empty selection set of
\* declared fields with declared arguments, leaves without and composite
\* fields with a valid selection set, applicable fragments with a definition
RECURSIVE ValidSelections(_, _, _, _)
ValidSelection(schema, doc, parentType, node) ==
  IF node.kind = "Field"
    THEN /\ FieldOnSchema(schema, parentType, node)
         /\ IF isCompositeType(schema, fieldType(schema, parentType, node.name))
              THEN ValidSelections(schema, doc,
                                   fieldType(schema, parentType, node.name),
                                   node.selections)
              ELSE node.selections = <<>>
  ELSE IF node.kind = "InlineFragment"
    THEN /\ node.name # NoName =>
              /\ isCompositeType(schema, getType(schema, node.name))
              /\ doTypesOverlap(schema, parentType, getType(schema, node.name))
         /\ ValidSelections(schema, doc, narrowedType(schema, parentType, node.name),
                            node.selections)
  ELSE \A definition \in definitionsNamed(doc, node.name) :
         /\ isCompositeType(schema, getType(schema, definition.typeCondition))
         /\ doTypesOverlap(schema, parentType,
                           getType(schema, definition.typeCondition))
ValidSelections(schema, doc, parentType, selections) ==
  /\ selections # <<>>
  /\ isCompositeType(schema, parentType)
  /\ \A k \in DOMAIN selections : ValidSelection(schema, doc, parentType, selections[k])

\* the document passes the validation of the target schema
ValidDocument(schema, doc) ==
  /\ \A j, k \in DOMAIN doc :
       (doc[j].kind = doc[k].kind /\ doc[j].name = doc[k].name) => j = k
  /\ \A k \in DOMAIN doc :
       /\ ValidSelections(schema, doc, definitionType(schema, doc[k]),
                          doc[k].selectionSet)
       /\ spreadNames(doc[k].selectionSet) \subseteq fragmentNames(doc)
       /\ IF doc[k].kind = "OperationDefinition"
            THEN /\ variablesReachedBy(doc, doc[k]) = Range(doc[k].variableDefinitions)
                 /\ \A i, j \in DOMAIN doc[k].variableDefinitions :
                      doc[k].variableDefinitions[i] = doc[k].variableDefinitions[j]
                        => i = j
            ELSE /\ \E j \in DOMAIN doc :
                      /\ doc[j].kind = "OperationDefinition"
                      /\ doc[k].name \in reachedBy(doc, doc[j])
                 /\ doc[k].name
                      \notin reachableNames(doc, spreadNames(doc[k].selectionSet),
                                            Len(doc))

\* C5: a document that is valid against the target schema is returned as it
\* is: the same definitions in the same order, with the same selections,
\* arguments, variable definitions and fragment definitions.
C5_ValidDocumentUnchanged ==
  (pc = "done" /\ ValidDocument(targetSchema, document)) => output = document

\* C6: the worklist loop of collectFragmentVariables terminates for every
\* document.  The loop is deterministic, so it terminates exactly if it never
\* comes back to a state it has been in since the call began.
C6_WorklistTerminates ==
  pc = "collect" => loopState \notin visited

\* C7: the returned document never holds two fragment definitions of one name.
C7_FragmentDefinitionsUnique ==
  pc = "done" =>
    \A j, k \in DOMAIN output :
      (/\ output[j].kind = "FragmentDefinition"
       /\ output[k].kind = "FragmentDefinition"
       /\ output[j].name = output[k].name) => j = k

\* C7, its case: a fragment that the returned document defines is spread
\* by an operation and again by another fragment of the returned document.
C7_Witness ==
  /\ pc = "done"
  /\ \E name \in fragmentNames(output) :
       /\ \E k \in DOMAIN output :
            /\ output[k].kind = "OperationDefinition"
            /\ name \in spreadNames(output[k].selectionSet)
       /\ \E k \in DOMAIN output :
            /\ output[k].kind = "FragmentDefinition"
            /\ output[k].name # name
            /\ name \in spreadNames(output[k].selectionSet)

----------------------------------------------------------------------------
(* The transform pipeline of a delegation: the request goes through the     *)
(* transforms and a final FilterToSchema, is executed, and the response     *)
(* goes back through the transforms.                                        *)

MaxTransforms == 2

\* a Transform; either hook may be absent, which is the identity
Transform(name, hasRequest, hasResponse) ==
  [name |-> name, transformRequest |-> hasRequest, transformResponse |-> hasResponse]

TransformNames == {"WrapQuery", "ExtractField", "ReplaceFieldWithFragment"}

Transforms ==
  { Transform(name, hasRequest, hasResponse) :
      name \in TransformNames, hasRequest \in BOOLEAN, hasResponse \in BOOLEAN }

Pipelines == SeqsUpTo(Transforms, MaxTransforms)

\* what a transform does to a request is seen in the request: the name of the
\* transform is added to the rewrites the request went through
applyTransformRequest(transform, originalRequest) ==
  IF transform.transformRequest
    THEN Append(originalRequest, transform.name)
    ELSE originalRequest

applyTransformResponse(transform, originalResponse) ==
  IF transform.transformResponse
    THEN Append(originalResponse, transform.name)
    ELSE originalResponse

\* the transform the k-th step of the request fold over n transforms applies
requestOrder(n, k) == k

\* a slip: the response is folded in the order of the request
responseOrder_Forward(n, k) ==
  k

\* the transform the k-th step of the response fold over n transforms applies
responseOrder(n, k) ==
  n + 1 - k

\* step 1: the initial request of a delegation with its transforms
delegate ==
  /\ pipelinePc = "idle"
  /\ transforms' \in Pipelines
  /\ request' = <<>>
  /\ transformStep' = 0
  /\ pipelinePc' = "request"
  /\ UNCHANGED response
  /\ UNCHANGED <<filterVars, resolverVars, wrapVars, concatenateVars>>

\* step 2: the next transformRequest
ApplyRequestTransform ==
  /\ pipelinePc = "request"
  /\ transformStep < Len(transforms)
  /\ request' = applyTransformRequest(
                  transforms[requestOrder(Len(transforms), transformStep + 1)],
                  request)
  /\ transformStep' = transformStep + 1
  /\ UNCHANGED <<transforms, pipelinePc, response>>
  /\ UNCHANGED <<filterVars, resolverVars, wrapVars, concatenateVars>>

\* step 2: the terminal FilterToSchema(targetSchema) pass
FilterRequest ==
  /\ pipelinePc = "request"
  /\ transformStep = Len(transforms)
  /\ request' = Append(request, "FilterToSchema")
  /\ pipelinePc' = "execute"
  /\ UNCHANGED <<transforms, transformStep, response>>
  /\ UNCHANGED <<filterVars, resolverVars, wrapVars, concatenateVars>>

\* step 3: the filtered request is executed against the target schema
ExecuteRequest ==
  /\ pipelinePc = "execute"
  /\ response' = <<>>
  /\ transformStep' = 0
  /\ pipelinePc' = "response"
  /\ UNCHANGED <<transforms, request>>
  /\ UNCHANGED <<filterVars, resolverVars, wrapVars, concatenateVars>>

\* step 4: the next transformResponse
ApplyResponseTransform ==
  /\ pipelinePc = "response"
  /\ transformStep < Len(transforms)
  /\ response' = applyTransformResponse(
                   transforms[responseOrder(Len(transforms), transformStep + 1)],
                   response)
  /\ transformStep' = transformStep + 1
  /\ UNCHANGED <<transforms, pipelinePc, request>>
  /\ UNCHANGED <<filterVars, resolverVars, wrapVars, concatenateVars>>

\* the delegation returns
ReturnResponse ==
  /\ pipelinePc = "response"
  /\ transformStep = Len(transforms)
  /\ pipelinePc' = "done"
  /\ UNCHANGED <<transforms, transformStep, request, response>>
  /\ UNCHANGED <<filterVars, resolverVars, wrapVars, concatenateVars>>

PipelineNext ==
  \/ delegate
  \/ ApplyRequestTransform
  \/ FilterRequest
  \/ ExecuteRequest
  \/ ApplyResponseTransform
  \/ ReturnResponse

PipelineSpec == Init /\ [][PipelineNext]_vars

\* the names of the transforms that have the given hook, in pipeline order
RECURSIVE hookNames(_, _)
hookNames(pipeline, hook) ==
  IF pipeline = <<>> THEN <<>>
  ELSE (IF Head(pipeline)[hook] THEN <<Head(pipeline).name>> ELSE <<>>)
         \o hookNames(Tail(pipeline), hook)

Reverse(s) == [k \in 1..Len(s) |-> s[Len(s) + 1 - k]]

\* C8: for the transforms t1 .. tn of a delegation, transformRequest has been
\* applied in the order t1, t2, .. tn (and the final FilterToSchema after
\* them), and transformResponse in the order tn, .. t1: a transform that was
\* the last to rewrite the request is the first to rewrite the response.
C8_RequestInOrderResponseReversed ==
  pipelinePc = "done" =>
    /\ request = hookNames(transforms, "transformRequest") \o <<"FilterToSchema">>
    /\ response = Reverse(hookNames(transforms, "transformResponse"))
    /\ (/\ transforms # <<>>
        /\ transforms[Len(transforms)].transformRequest
        /\ transforms[Len(transforms)].transformResponse)
         => /\ request[Len(request) - 1] = transforms[Len(transforms)].name
            /\ response[1] = transforms[Len(transforms)].name

\* C8, its case: a delegation with two transforms of different names, both
\* with both hooks, has returned.
C8_Witness ==
  /\ pipelinePc = "done"
  /\ Len(transforms) = 2
  /\ transforms[1].name # transforms[2].name
  /\ \A k \in 1..2 : transforms[k].transformRequest /\ transforms[k].transformResponse
  /\ Len(response) = 2

----------------------------------------------------------------------------
(* The default merged resolver and the errors of delegated results.         *)
(* Values are told apart the way the resolver's tests tell them apart:      *)
(* undefined, null, numbers (0 is falsy), strings, objects, which may carry *)
(* the errors attached to them beside their properties, and the built-in    *)
(* objects a property lookup reaches by the prototype chain.                *)

undefinedValue == [t |-> "undefined"]
nullValue == [t |-> "null"]
Number(v) == [t |-> "number", v |-> v]
Text(v) == [t |-> "string", v |-> v]
NoProperties == [key \in {} |-> nullValue]
\* an ordinary object, as an object literal, a spread or JSON.parse gives
Object(properties, errors) ==
  [t |-> "object", properties |-> properties, errors |-> errors,
   prototype |-> "Object.prototype"]

\* an object made by Object.create(null), as the execution of a query builds
ObjectCreateNull(properties, errors) ==
  [t |-> "object", properties |-> properties, errors |-> errors,
   prototype |-> "null"]

\* a built-in object of the language, by its name: a prototype, a
\* constructor or a function
Builtin(name) == [t |-> "builtin", name |-> name]

\* a number that is no integer of the model, by its name as a property of
\* Number; v is its sign, 0 for NaN
NumberConstant(name) ==
  [t |-> "number",
   v |-> IF name = "NaN" THEN 0
         ELSE IF name \in {"NEGATIVE_INFINITY", "MIN_SAFE_INTEGER"} THEN 0 - 1
         ELSE 1,
   constant |-> name]

\* what a property lookup throws
TypeError == [t |-> "TypeError"]

\* !value is false
truthy(value) ==
  \/ value.t \in {"object", "builtin"}
  \/ value.t = "number" /\ value.v # 0
  \/ value.t = "string" /\ value.v # ""

\* value == null
looselyNull(value) == value.t \in {"undefined", "null"}

\* the release of Node the property of the built-in object first appears in
since(name, key) ==
  CASE name = "String.prototype" /\ key \in {"trimStart", "trimEnd"} -> "10.0"
    [] name = "String.prototype" /\ key = "matchAll" -> "12.0"
    [] name = "Object" /\ key = "fromEntries" -> "12.0"
    [] name = "String.prototype" /\ key = "replaceAll" -> "15.0"
    [] name = "String.prototype" /\ key = "at" -> "16.6"
    [] name = "Object" /\ key = "hasOwn" -> "16.9"
    [] name = "String.prototype" /\ key \in {"isWellFormed", "toWellFormed"} -> "20.0"
    [] name = "Object" /\ key = "groupBy" -> "21.0"
    [] OTHER -> Head(NodeReleases)

\* the properties the built-in object holds itself on the latest of the
\* releases, those with a symbol for key left out
LatestBuiltinNames(name) ==
  CASE name = "Object.prototype" -> ObjectPrototypeNames
    [] name = "Function.prototype" ->
         {"length", "name", "arguments", "caller", "constructor", "apply",
          "bind", "call", "toString"}
    [] name = "Number.prototype" ->
         {"constructor", "toExponential", "toFixed", "toPrecision", "toString",
          "valueOf", "toLocaleString"}
    [] name = "String.prototype" ->
         {"length", "constructor", "anchor", "at", "big", "blink", "bold",
          "charAt", "charCodeAt", "codePointAt", "concat", "endsWith", "fixed",
          "fontcolor", "fontsize", "includes", "indexOf", "isWellFormed",
          "italics", "lastIndexOf", "link", "localeCompare", "match",
          "matchAll", "normalize", "padEnd", "padStart", "repeat", "replace",
          "replaceAll", "search", "slice", "small", "split", "strike", "sub",
          "substr", "substring", "sup", "startsWith", "toString",
          "toWellFormed", "trim", "trimStart", "trimLeft", "trimEnd",
          "trimRight", "toLocaleLowerCase", "toLocaleUpperCase", "toLowerCase",
          "toUpperCase", "valueOf"}
    [] name = "Object" ->
         {"length", "name", "prototype", "assign", "create", "defineProperties",
          "defineProperty", "entries", "freeze", "fromEntries",
          "getOwnPropertyDescriptor", "getOwnPropertyDescriptors",
          "getOwnPropertyNames", "getOwnPropertySymbols", "getPrototypeOf",
          "groupBy", "hasOwn", "is", "isExtensible", "isFrozen", "isSealed",
          "keys", "preventExtensions", "seal", "setPrototypeOf", "values"}
    [] name = "Function" -> {"length", "name", "prototype"}
    [] name = "Number" ->
         {"length", "name", "prototype", "EPSILON", "MAX_SAFE_INTEGER",
          "MAX_VALUE", "MIN_SAFE_INTEGER", "MIN_VALUE", "NaN",
          "NEGATIVE_INFINITY", "POSITIVE_INFINITY", "isFinite", "isInteger",
          "isNaN", "isSafeInteger", "parseFloat", "parseInt"}
    [] name = "String" ->
         {"length", "name", "prototype", "fromCharCode", "fromCodePoint", "raw"}
    [] OTHER -> {"length", "name"}

\* the properties the built-in object holds itself on the release the
\* program runs on
BuiltinNames(name) ==
  { key \in LatestBuiltinNames(name) :
      indexOf(NodeReleases, since(name, key)) <= indexOf(NodeReleases, engine) }

\* the length of a built-in function: the number of its parameters; of
\* String.prototype, a string, the number of its characters
builtinLength(name) ==
  IF name \in
       {"Function.prototype", "String.prototype", "Function.prototype.toString",
        "Object.prototype.toString", "Object.prototype.toLocaleString",
        "Object.prototype.valueOf", "Number.prototype.toLocaleString",
        "Number.prototype.valueOf", "String.prototype.big",
        "String.prototype.blink", "String.prototype.bold",
        "String.prototype.fixed", "String.prototype.isWellFormed",
        "String.prototype.italics", "String.prototype.normalize",
        "String.prototype.small", "String.prototype.strike",
        "String.prototype.sub", "String.prototype.sup",
        "String.prototype.toString", "String.prototype.toWellFormed",
        "String.prototype.trim", "String.prototype.trimStart",
        "String.prototype.trimEnd", "String.prototype.toLocaleLowerCase",
        "String.prototype.toLocaleUpperCase", "String.prototype.toLowerCase",
        "String.prototype.toUpperCase", "String.prototype.valueOf"}
    THEN 0
  ELSE IF name \in
       {"Function.prototype.apply", "Object.prototype.__defineGetter__",
        "Object.prototype.__defineSetter__", "String.prototype.replace",
        "String.prototype.replaceAll", "String.prototype.slice",
        "String.prototype.split", "String.prototype.substr",
        "String.prototype.substring", "Object.assign", "Object.create",
        "Object.defineProperties", "Object.getOwnPropertyDescriptor",
        "Object.groupBy", "Object.hasOwn", "Object.is",
        "Object.setPrototypeOf", "parseInt"}
    THEN 2
  ELSE IF name = "Object.defineProperty" THEN 3
  ELSE 1

\* the name of a built-in function: what follows the last dot of the name
\* it goes by here
RECURSIVE builtinName(_)
builtinName(name) ==
  IF name = "Function.prototype" THEN ""
  ELSE IF \E k \in 1..Len(name) : SubSeq(name, k, k) = "."
    THEN builtinName(
           SubSeq(name,
                  (CHOOSE k \in 1..Len(name) : SubSeq(name, k, k) = ".") + 1,
                  Len(name)))
    ELSE name

\* the object the value inherits from, by its name
prototypeOf(value) ==
  CASE value.t = "object" -> value.prototype
    [] value.t = "number" -> "Number.prototype"
    [] value.t = "string" -> "String.prototype"
    [] value.t = "builtin" ->
         IF value.name = "Object.prototype" THEN "null"
         ELSE IF value.name \in {"Function.prototype", "Number.prototype",
                                 "String.prototype"}
           THEN "Object.prototype"
         ELSE "Function.prototype"

\* key is the index of a character of the string
isIndex(string, key) == \E k \in 1..Len(string) : ToString(k - 1) = key

\* the value holds a property of this name itself
hasOwnProperty(value, key) ==
  CASE value.t = "object" -> key \in DOMAIN value.properties
    [] value.t = "string" -> key = "length" \/ isIndex(value.v, key)
    [] value.t = "builtin" -> key \in BuiltinNames(value.name)
    [] OTHER -> FALSE

\* the property of a built-in object, read for the receiver of the lookup:
\* __proto__ of Object.prototype gives what the receiver inherits from,
\* caller and arguments of Function.prototype throw
builtinProperty(name, receiver, key) ==
  IF name = "Object.prototype" /\ key = "__proto__"
    THEN IF prototypeOf(receiver) = "null" THEN nullValue
         ELSE Builtin(prototypeOf(receiver))
  ELSE IF name = "Function.prototype" /\ key \in {"caller", "arguments"}
    THEN TypeError
  ELSE IF key = "constructor"
    THEN Builtin(SubSeq(name, 1, Len(name) - Len(".prototype")))
  ELSE IF key = "length" THEN Number(builtinLength(name))
  ELSE IF key = "name" THEN Text(builtinName(name))
  ELSE IF name = "Number" /\ key \in {"parseFloat", "parseInt"}
    THEN Builtin(key)
  ELSE IF name = "Number" /\ key \notin {"prototype", "isFinite", "isInteger",
                                         "isNaN", "isSafeInteger"}
    THEN NumberConstant(key)
  ELSE IF name = "String.prototype" /\ key = "trimLeft"
    THEN Builtin("String.prototype.trimStart")
  ELSE IF name = "String.prototype" /\ key = "trimRight"
    THEN Builtin("String.prototype.trimEnd")
  ELSE Builtin(name \o "." \o key)

\* the property the holder has itself
ownProperty(holder, receiver, key) ==
  CASE holder.t = "object" -> holder.properties[key]
    [] holder.t = "string" ->
         IF key = "length" THEN Number(Len(holder.v))
         ELSE Text(SubSeq(holder.v,
                          CHOOSE k \in 1..Len(holder.v) : ToString(k - 1) = key,
                          CHOOSE k \in 1..Len(holder.v) : ToString(k - 1) = key))
    [] holder.t = "builtin" -> builtinProperty(holder.name, receiver, key)

\* the lookup along the prototype chain, from the holder on
RECURSIVE lookup(_, _, _)
lookup(holder, receiver, key) ==
  IF hasOwnProperty(holder, key) THEN ownProperty(holder, receiver, key)
  ELSE IF prototypeOf(holder) = "null" THEN undefinedValue
  ELSE lookup(Builtin(prototypeOf(holder)), receiver, key)

\* object[key]: the property the value holds itself, else the one it
\* inherits; on undefined and null it throws
get(object, key) ==
  IF looselyNull(object) \/ object = TypeError THEN TypeError
  ELSE lookup(object, object, key)

\* the enumerable properties the value holds itself, as { ...value } copies
\* them: those of an object, of a string its characters by their index
propertiesOf(value) ==
  IF value.t = "object" THEN value.properties
  ELSE IF value.t = "string"
    THEN [key \in {ToString(k - 1) : k \in 1..Len(value.v)} |->
            Text(SubSeq(value.v,
                        CHOOSE k \in 1..Len(value.v) : ToString(k - 1) = key,
                        CHOOSE k \in 1..Len(value.v) : ToString(k - 1) = key))]
  ELSE NoProperties
errorsOf(value) == IF value.t = "object" THEN value.errors ELSE <<>>

GraphQLError(message, path) == [message |-> message, path |-> path]

\* info.path: the response path of a field, a list linked by prev
addPath(prev, key) == [prev |-> prev, key |-> key]

RECURSIVE responsePathAsArray(_)
responsePathAsArray(path) ==
  IF path = undefinedValue THEN <<>>
  ELSE Append(responsePathAsArray(path.prev), path.key)

\* the info of a resolver call: the name and alias of the field node, the path
Info(fieldName, alias, path) ==
  [fieldName |-> fieldName, alias |-> alias, path |-> path]

getResponseKeyFromInfo(info) ==
  IF info.alias # NoName THEN info.alias ELSE info.fieldName

\* the errors attached to the object for the field itself
RECURSIVE ownErrors(_, _)
ownErrors(errors, fieldName) ==
  IF errors = <<>> THEN <<>>
  ELSE (IF Head(errors).path = <<fieldName>> THEN <<Head(errors)>> ELSE <<>>)
         \o ownErrors(Tail(errors), fieldName)

\* the errors attached to the object for what is below the field
RECURSIVE childrenErrors(_, _)
childrenErrors(errors, fieldName) ==
  IF errors = <<>> THEN <<>>
  ELSE (IF Len(Head(errors).path) > 1 /\ Head(errors).path[1] = fieldName
          THEN <<Head(errors)>> ELSE <<>>)
         \o childrenErrors(Tail(errors), fieldName)

getErrorsFromParent(object, fieldName) ==
  IF ownErrors(errorsOf(object), fieldName) # <<>>
    THEN [kind |-> "OWN", error |-> Head(ownErrors(errorsOf(object), fieldName))]
    ELSE [kind |-> "CHILDREN",
          errors |-> childrenErrors(errorsOf(object), fieldName)]

\* the errors, each with its path relative to the object they are attached to
relativeErrors(errors) ==
  [k \in DOMAIN errors |->
     GraphQLError(errors[k].message, Tail(errors[k].path))]

annotateWithChildrenErrors(object, errors) ==
  IF errors = <<>> THEN object
  ELSE Object(propertiesOf(object), relativeErrors(errors))

\* line 18: locatedError(new Error(message), info.fieldNodes, path)
locatedError(message, path) == GraphQLError(message, path)

Return(value) == [kind |-> "return", value |-> value]
Throw(error) == [kind |-> "throw", error |-> error]

\* lines 21-25: the value under the response key, else under the field name
aliasedResult(parent, responseKey, fieldName) ==
  IF looselyNull(get(parent, responseKey))
    THEN get(parent, fieldName)
    ELSE get(parent, responseKey)

\* lines 27-30: subscription result mapping
subscriptionResult(parent, responseKey, result) ==
  IF result = TypeError THEN TypeError
  ELSE IF /\ ~truthy(result)
          /\ truthy(get(parent, "data"))
          /\ \/ get(get(parent, "data"), responseKey) = TypeError
             \/ truthy(get(get(parent, "data"), responseKey))
    THEN get(get(parent, "data"), responseKey)
    ELSE result

\* a slip: the value is returned without the errors of what is below it
resolveWith_Unannotated(parent, info, responseKey, errorResult) ==
  IF errorResult.kind = "OWN"
    THEN Throw(locatedError(errorResult.error.message,
                            responsePathAsArray(info.path)))
  ELSE IF subscriptionResult(parent, responseKey,
                             aliasedResult(parent, responseKey, info.fieldName))
            = TypeError
    THEN Throw(TypeError)
    ELSE Return(subscriptionResult(
                  parent, responseKey,
                  aliasedResult(parent, responseKey, info.fieldName)))

\* lines 16-35: what the resolver does with the errors found on the parent
resolveWith(parent, info, responseKey, errorResult) ==
  IF errorResult.kind = "OWN"
    THEN Throw(locatedError(errorResult.error.message,
                            responsePathAsArray(info.path)))
  ELSE IF subscriptionResult(parent, responseKey,
                             aliasedResult(parent, responseKey, info.fieldName))
            = TypeError
    THEN Throw(TypeError)
    ELSE Return(annotateWithChildrenErrors(
                  subscriptionResult(
                    parent, responseKey,
                    aliasedResult(parent, responseKey, info.fieldName)),
                  errorResult.errors))

\* a slip: the error attached to the field itself is not looked for
defaultMergedResolver_ChildrenOnly(parent, info) ==
  IF ~truthy(parent) THEN Return(nullValue)
  ELSE resolveWith(parent, info, getResponseKeyFromInfo(info),
                   [kind |-> "CHILDREN",
                    errors |-> childrenErrors(errorsOf(parent),
                                              getResponseKeyFromInfo(info))])

\* lines 9-36
defaultMergedResolver(parent, info) ==
  IF ~truthy(parent) THEN Return(nullValue)
  ELSE resolveWith(parent, info, getResponseKeyFromInfo(info),
                   getErrorsFromParent(parent, getResponseKeyFromInfo(info)))

----------------------------------------------------------------------------
(* The host engine resolving a query whose root fields delegate: the result *)
(* of each delegation, with its errors attached, is the parent of the       *)
(* proxied fields below, which the default merged resolver resolves.        *)

\* a field of the caller's query
CallerField(fieldName, alias, selections) ==
  [fieldName |-> fieldName, alias |-> alias, selections |-> selections]

responseKeyOf(field) ==
  IF field.alias # NoName THEN field.alias ELSE field.fieldName

\* the value of a composite field in the merged result
compositeValue == [t |-> "composite"]

\* the delegation of a root field hands back result.data[fieldName] with the
\* errors of the result attached, their paths relative to that root field
checkResultAndHandleErrors(result, responseKey) ==
  annotateWithChildrenErrors(get(result.data, responseKey), result.errors)

\* the fields of a selection set, each to be resolved on the parent value
childTasks(parent, selections, path) ==
  [k \in DOMAIN selections |->
     [parent |-> parent, field |-> selections[k], path |-> path]]

infoOf(task) ==
  Info(task.field.fieldName, task.field.alias,
       addPath(task.path, responseKeyOf(task.field)))

\* the engine completes a field with what its resolver returned or threw
completeValue(field, path, result) ==
  IF result.kind = "throw"
    THEN /\ mergedData' = Append(mergedData, [path |-> responsePathAsArray(path),
                                              value |-> nullValue])
         /\ mergedErrors' = Append(mergedErrors,
                                   IF result.error = TypeError
                                     THEN GraphQLError("TypeError",
                                                       responsePathAsArray(path))
                                     ELSE result.error)
         /\ tasks' = Tail(tasks)
  ELSE IF looselyNull(result.value)
    THEN /\ mergedData' = Append(mergedData, [path |-> responsePathAsArray(path),
                                              value |-> nullValue])
         /\ tasks' = Tail(tasks)
         /\ UNCHANGED mergedErrors
  ELSE IF field.selections = <<>>
    THEN /\ mergedData' = Append(mergedData, [path |-> responsePathAsArray(path),
                                              value |-> result.value])
         /\ tasks' = Tail(tasks)
         /\ UNCHANGED mergedErrors
  ELSE /\ mergedData' = Append(mergedData, [path |-> responsePathAsArray(path),
                                            value |-> compositeValue])
       /\ tasks' = Tail(tasks) \o childTasks(result.value, field.selections, path)
       /\ UNCHANGED mergedErrors

\* the resolver of a delegating root field returns the delegated result
ResolveRoot ==
  /\ resolverPc = "resolving"
  /\ tasks = <<>>
  /\ rootIndex <= Len(roots)
  /\ tasks' = childTasks(
                checkResultAndHandleErrors(roots[rootIndex].result,
                                           roots[rootIndex].fieldName),
                roots[rootIndex].field.selections,
                addPath(undefinedValue, responseKeyOf(roots[rootIndex].field)))
  /\ mergedData' = Append(mergedData,
                          [path |-> <<responseKeyOf(roots[rootIndex].field)>>,
                           value |-> compositeValue])
  /\ rootIndex' = rootIndex + 1
  /\ UNCHANGED <<roots, resolverPc, call, outcome, mergedErrors, engine>>
  /\ UNCHANGED <<filterVars, pipelineVars, wrapVars, concatenateVars>>

\* the default merged resolver is called for the next proxied field
ResolveField ==
  /\ resolverPc = "resolving"
  /\ tasks # <<>>
  /\ call' = [parent |-> Head(tasks).parent, info |-> infoOf(Head(tasks))]
  /\ outcome' = defaultMergedResolver(Head(tasks).parent, infoOf(Head(tasks)))
  /\ completeValue(Head(tasks).field, infoOf(Head(tasks)).path, outcome')
  /\ UNCHANGED <<roots, resolverPc, rootIndex, engine>>
  /\ UNCHANGED <<filterVars, pipelineVars, wrapVars, concatenateVars>>

\* every field is resolved
CompleteQuery ==
  /\ resolverPc = "resolving"
  /\ tasks = <<>>
  /\ rootIndex > Len(roots)
  /\ resolverPc' = "done"
  /\ UNCHANGED <<roots, rootIndex, tasks, call, outcome, mergedData, mergedErrors,
                 engine>>
  /\ UNCHANGED <<filterVars, pipelineVars, wrapVars, concatenateVars>>

\* The queries: a root field addressByUser that delegates to userById, over
\* up to MaxFields fields of the user, one of them under an alias and one an
\* object named data; the delegated result holds a value for every response
\* key and at most one error, at a field whose value is null.

MaxFields == 3

streetField == CallerField("streetAddress", NoName, <<>>)
zipField == CallerField("zip", NoName, <<>>)
codeField == CallerField("zip", "code", <<>>)
dataField == CallerField("data", NoName, <<zipField>>)

ChildFields == {streetField, zipField, codeField, dataField}

ChildSelections ==
  { selections \in SeqsUpTo(ChildFields, MaxFields) :
      /\ selections # <<>>
      /\ \A j, k \in DOMAIN selections :
           responseKeyOf(selections[j]) = responseKeyOf(selections[k]) => j = k }

ScalarValues == {nullValue, Number(0), Number(1)}

DataValues ==
  {nullValue} \cup { Object([key \in {"zip"} |-> v], <<>>) : v \in ScalarValues }

\* the delegated values of the selected fields, by response key
DelegatedObjects(selections) ==
  { Object(properties, <<>>) :
      properties \in
        { f \in [{responseKeyOf(selections[k]) : k \in DOMAIN selections}
                   -> ScalarValues \cup DataValues] :
            \A k \in DOMAIN selections :
              f[responseKeyOf(selections[k])]
                \in (IF selections[k].selections = <<>>
                       THEN ScalarValues ELSE DataValues) } }

\* no error, or one error at a field of the delegated object that is null
DelegatedErrors(rootField, object) ==
  {<<>>}
  \cup { <<GraphQLError("failed", <<rootField, key>>)>> :
           key \in {k \in DOMAIN object.properties :
                      object.properties[k] = nullValue} }
  \cup { <<GraphQLError("failed", <<rootField, "data", "zip">>)>> :
           key \in {k \in DOMAIN object.properties :
                      /\ k = "data"
                      /\ get(object.properties[k], "zip") = nullValue} }

DelegatingRoot(field, fieldName, object, errors) ==
  [field |-> field, fieldName |-> fieldName,
   result |-> [data |-> Object([key \in {fieldName} |-> object], <<>>),
               errors |-> errors]]

\* a second root field, whose delegation returns no error
otherRoot ==
  DelegatingRoot(CallerField("userById", "other", <<zipField>>), "userById",
                 Object([key \in {"zip"} |-> Number(1)], <<>>), <<>>)

MainRoots ==
  UNION { UNION { { DelegatingRoot(CallerField("addressByUser", NoName, selections),
                                   "userById", object, errors) :
                      errors \in DelegatedErrors("userById", object) } :
                  object \in DelegatedObjects(selections) } :
          selections \in ChildSelections }

\* a field named like a property that objects inherit, plain and under an
\* alias; the delegated object is an ordinary one or one without prototype
toStringField == CallerField("toString", NoName, <<>>)
textField == CallerField("toString", "text", <<>>)

InheritedNameSelections ==
  {<<toStringField>>, <<textField>>, <<toStringField, dataField>>,
   <<textField, zipField>>}

RECURSIVE withoutPrototype(_)
withoutPrototype(value) ==
  IF value.t = "object"
    THEN ObjectCreateNull([key \in DOMAIN value.properties |->
                             withoutPrototype(value.properties[key])],
                          value.errors)
    ELSE value

InheritedNameRoots ==
  UNION { UNION { { DelegatingRoot(CallerField("addressByUser", NoName, selections),
                                   "userById", object, errors) :
                      errors \in DelegatedErrors("userById", object) } :
                  object \in DelegatedObjects(selections)
                               \cup { withoutPrototype(ordinary) :
                                        ordinary \in DelegatedObjects(selections) } } :
          selections \in InheritedNameSelections }

\* a field named constructor under an alias, which the delegated object has
\* null for, and below it a field named like a function of Object: one that
\* Object has on every release of Node, and one it has on some
madeField(key) == CallerField("constructor", "made", <<CallerField(key, NoName, <<>>)>>)

BuiltinRoots ==
  { DelegatingRoot(CallerField("addressByUser", NoName, <<madeField(key)>>),
                   "userById", Object([k \in {"made"} |-> nullValue], <<>>), <<>>) :
      key \in {"assign", "hasOwn", "groupBy"} }

Queries ==
  { <<root>> : root \in MainRoots } \cup { <<root, otherRoot>> : root \in MainRoots }
    \cup { <<root>> : root \in InheritedNameRoots }
    \cup { <<root>> : root \in BuiltinRoots }

\* the engine sets out on a query
execute ==
  /\ resolverPc = "idle"
  /\ roots' \in Queries
  \* the release matters to the queries that reach a function of Object; the
  \* others come to the same on every release
  /\ engine' \in IF roots' \in { <<root>> : root \in BuiltinRoots }
                  THEN Engines ELSE {engine}
  /\ resolverPc' = "resolving"
  /\ UNCHANGED <<rootIndex, tasks, call, outcome, mergedData, mergedErrors>>
  /\ UNCHANGED <<filterVars, pipelineVars, wrapVars, concatenateVars>>

ResolverNext ==
  \/ execute
  \/ ResolveRoot
  \/ ResolveField
  \/ CompleteQuery

ResolverSpec == Init /\ [][ResolverNext]_vars

----------------------------------------------------------------------------
(* The default merged resolver: the claims.                                 *)

\* the value below a delegated value, by response keys
RECURSIVE valueAt(_, _)
valueAt(value, keys) ==
  IF keys = <<>> THEN value
  ELSE IF looselyNull(value) THEN undefinedValue
  ELSE valueAt(get(value, Head(keys)), Tail(keys))

\* the merged result's rendering of a delegated value
mergedValueOf(value) ==
  IF looselyNull(value) THEN nullValue
  ELSE IF value.t = "object" THEN compositeValue
  ELSE value

\* the fields the selections reach below a delegated value, each with the
\* delegated value it has
RECURSIVE delegatedData(_, _, _)
delegatedData(value, selections, path) ==
  UNION { {[path |-> Append(path, responseKeyOf(selections[k])),
            value |-> mergedValueOf(get(value, responseKeyOf(selections[k])))]}
          \cup (IF get(value, responseKeyOf(selections[k])).t = "object"
                  THEN delegatedData(get(value, responseKeyOf(selections[k])),
                                     selections[k].selections,
                                     Append(path, responseKeyOf(selections[k])))
                  ELSE {}) :
          k \in DOMAIN selections }

\* the root field and all it selects, with the delegated values
delegatedDataOf(root) ==
  {[path |-> <<responseKeyOf(root.field)>>, value |-> compositeValue]}
  \cup delegatedData(get(root.result.data, root.fieldName), root.field.selections,
                     <<responseKeyOf(root.field)>>)

\* the delegated call returned exactly one error, at a path [x, y]
OneErrorAtField(result) ==
  /\ Len(result.errors) = 1
  /\ Len(result.errors[1].path) = 2

\* C9: if a delegated call returned exactly one error at the response path
\* [x, y] and valid data elsewhere, the merged result holds exactly one
\* error, with the message of that error and the caller's path of x.y, null
\* at x.y, and for every other field, the siblings of x and of y among them,
\* its delegated value.
C9_ErrorLocality ==
  (resolverPc = "done" /\ OneErrorAtField(roots[1].result)) =>
    /\ mergedErrors =
         << GraphQLError(roots[1].result.errors[1].message,
                         <<responseKeyOf(roots[1].field),
                           roots[1].result.errors[1].path[2]>>) >>
    /\ [path |-> <<responseKeyOf(roots[1].field), roots[1].result.errors[1].path[2]>>,
        value |-> nullValue] \in Range(mergedData)
    /\ Range(mergedData) = UNION { delegatedDataOf(roots[k]) : k \in DOMAIN roots }

\* the first error attached to the parent of the call directly under the
\* response key of the field, if there is one
directErrors == ownErrors(errorsOf(call.parent), getResponseKeyFromInfo(call.info))

\* C10: when the parent carries an error attached directly to the response
\* key of the field being resolved, the default merged resolver throws an
\* error with the message of the attached error and the caller's response
\* path of the field (info.path), and returns no value.
C10_OwnErrorThrownLocated ==
  (outcome.kind # "none" /\ directErrors # <<>>) =>
    outcome = Throw(GraphQLError(Head(directErrors).message,
                                 responsePathAsArray(call.info.path)))

\* C10, its case: a field below addressByUser, which delegated to userById,
\* was resolved on a parent that carries the field's own error.
C10_Witness ==
  /\ outcome.kind = "throw"
  /\ directErrors # <<>>
  /\ responsePathAsArray(call.info.path)
       = <<"addressByUser", getResponseKeyFromInfo(call.info)>>
  /\ call.info.alias # NoName

----------------------------------------------------------------------------
(* FilterToSchema: further claims.                                          *)

\* C11: the document FilterToSchema emits is valid against the target
\* schema: below every definition that kept selections, every field is
\* declared with declared arguments, every fragment applies and has a
\* definition, a leaf field has no selection set and a field of object,
\* interface or union type has a selection set that is not empty.
C11_EmittedDocumentValid ==
  pc = "done" =>
    \A k \in DOMAIN output :
      output[k].selectionSet # <<>> =>
        /\ ValidSelections(targetSchema, output,
                           definitionType(targetSchema, output[k]),
                           output[k].selectionSet)
        /\ spreadNames(output[k].selectionSet) \subseteq fragmentNames(output)

\* C12: the type stack of filterSelectionSet stays balanced: every leave pops
\* the entry its enter pushed, so when the traversal of an operation's
\* selection set ends the stack holds the root type and nothing else.  (A
\* pop without a push is never made up for, pushes being always popped, so
\* the stack at the end tells whether it was balanced all along.)
C12_TypeStackBalanced ==
  pc = "collect" =>
    pending.typeStack
      = <<rootTypeOf(targetSchema, operations[operationIndex].operation)>>

\* how often the name occurs in the list
occurrences(array, name) == Len(SelectSeq(array, LAMBDA item : item = name))

\* C13: retraction is exact: a variable that a field retained in an
\* operation refers to keeps its definition on that operation, also when
\* occurrences of the same variable went with a field deleted for its emptied
\* selection set, before or after the retained field.
C13_RetainedVariableKeepsDefinition ==
  pc = "done" =>
    \A k \in DOMAIN operations :
      \A name \in Range(operations[k].variableDefinitions) :
        (/\ occurrences(variablesInSelections(output[k].selectionSet), name) > 0
         /\ occurrences(variablesInSelections(output[k].selectionSet), name)
              < occurrences(variablesInSelections(operations[k].selectionSet), name))
          => name \in Range(output[k].variableDefinitions)

\* every field below the selections that is declared on its object or
\* interface parent type has only arguments the field declares
RECURSIVE ArgumentsDeclared(_, _, _)
ArgumentsDeclared(schema, parentType, selections) ==
  \A k \in DOMAIN selections :
    IF selections[k].kind = "Field"
      THEN /\ (/\ KindOf(schema, parentType) \in {"Object", "Interface"}
               /\ declaredField(schema, parentType, selections[k].name) # Undefined)
                => FieldOnSchema(schema, parentType, selections[k])
           /\ ArgumentsDeclared(schema,
                                fieldType(schema, parentType, selections[k].name),
                                selections[k].selections)
    ELSE IF selections[k].kind = "InlineFragment"
      THEN ArgumentsDeclared(schema,
                             narrowedType(schema, parentType, selections[k].name),
                             selections[k].selections)
    ELSE TRUE

\* C14: a field declared on its object or interface parent type keeps only
\* the arguments the field declares, and a variable referred to only by a
\* removed argument is not recorded as used: every variable definition kept
\* on an operation is referred to by what remains of the operation or by a
\* fragment.
C14_OnlyDeclaredArgumentsKept ==
  pc = "done" =>
    \A k \in DOMAIN operations :
      /\ ArgumentsDeclared(targetSchema, definitionType(targetSchema, output[k]),
                           output[k].selectionSet)
      /\ Range(output[k].variableDefinitions)
           \subseteq (Range(variablesInSelections(output[k].selectionSet))
                        \cup fragmentVariables(document))

\* the names of the fragments the document defines only on types that the
\* schema does not have
missingTypeFragments(schema, doc) ==
  { name \in fragmentNames(doc) :
      \A definition \in definitionsNamed(doc, name) :
        getType(schema, definition.typeCondition) = Undefined }

\* C15: a fragment definition on a type the target schema does not have is
\* never emitted, and every spread of that fragment, in operations and in
\* other fragments, is removed.
C15_MissingTypeFragmentsRemoved ==
  pc = "done" =>
    \A name \in missingTypeFragments(targetSchema, document) :
      /\ name \notin fragmentNames(output)
      /\ \A k \in DOMAIN output : name \notin spreadNames(output[k].selectionSet)

\* no inline fragment below the selections has a type condition that is
\* incompatible with the type that encloses it
RECURSIVE NoIncompatibleFragment(_, _, _)
NoIncompatibleFragment(schema, parentType, selections) ==
  \A k \in DOMAIN selections :
    IF selections[k].kind = "Field"
      THEN NoIncompatibleFragment(schema,
                                  fieldType(schema, parentType, selections[k].name),
                                  selections[k].selections)
    ELSE IF selections[k].kind = "InlineFragment"
      THEN /\ selections[k].name # NoName =>
                implementsAbstractType(schema, parentType,
                                       getType(schema, selections[k].name))
           /\ NoIncompatibleFragment(schema,
                                     narrowedType(schema, parentType, selections[k].name),
                                     selections[k].selections)
    ELSE TRUE

\* the variables the selections refer to outside the inline fragments whose
\* type condition is incompatible with the type that encloses them
RECURSIVE compatibleVariables(_, _, _)
compatibleVariables(schema, parentType, selections) ==
  UNION { IF selections[k].kind = "Field"
            THEN Range(argumentVariables(selections[k].arguments))
                 \cup compatibleVariables(
                        schema, fieldType(schema, parentType, selections[k].name),
                        selections[k].selections)
          ELSE IF selections[k].kind = "InlineFragment"
            THEN IF selections[k].name # NoName
                    /\ ~implementsAbstractType(schema, parentType,
                                               getType(schema, selections[k].name))
                   THEN {}
                   ELSE compatibleVariables(
                          schema, narrowedType(schema, parentType, selections[k].name),
                          selections[k].selections)
          ELSE {} : k \in DOMAIN selections }

\* C16: an inline fragment whose type condition is incompatible with the
\* enclosing type is removed with all below it, and a variable the operation
\* refers to only inside such a fragment is not recorded as used: it has no
\* definition on the returned operation.
C16_IncompatibleFragmentRemoved ==
  pc = "done" =>
    /\ \A k \in DOMAIN output :
         NoIncompatibleFragment(targetSchema, definitionType(targetSchema, output[k]),
                                output[k].selectionSet)
    /\ \A k \in DOMAIN operations :
         Range(output[k].variableDefinitions)
           \subseteq (compatibleVariables(
                        targetSchema, definitionType(targetSchema, operations[k]),
                        operations[k].selectionSet)
                      \cup fragmentVariables(document))

\* C17: the returned document has one operation definition for every operation
\* definition of the document given, in the same order and with the same
\* operation kind, name and directives, also where every root field of the
\* operation was removed; the definitions after them are fragment definitions.
C17_OneOperationPerOperation ==
  pc = "done" =>
    /\ Len(operationsOf(output)) = Len(operations)
    /\ \A k \in DOMAIN operations :
         /\ output[k].kind = "OperationDefinition"
         /\ output[k].operation = operations[k].operation
         /\ output[k].name = operations[k].name
         /\ output[k].directives = operations[k].directives

\* a document of two operations is returned, the first with all of its root
\* fields removed and the second with its directive
C17_Witness ==
  /\ pc = "done"
  /\ Len(operations) = 2
  /\ operations[1].selectionSet # <<>>
  /\ output[1].selectionSet = <<>>
  /\ output[2].name = "2"
  /\ output[2].directives = <<"live">>

\* what tells a selection from its siblings
keyOf(node) == <<node.kind, node.name>>

\* no two selections beside each other have the same kind and name
RECURSIVE UniqueSiblings(_)
UniqueSiblings(selections) ==
  /\ \A j, k \in DOMAIN selections :
       keyOf(selections[j]) = keyOf(selections[k]) => j = k
  /\ \A k \in DOMAIN selections : UniqueSiblings(selections[k].selections)

\* the positions of the fields without sub-selection, each as the indices
\* leading to it from the selection set
RECURSIVE leafPaths(_)
leafPaths(selections) ==
  UNION { IF selections[k].kind = "Field" /\ selections[k].selections = <<>>
            THEN {<<k>>}
            ELSE { <<k>> \o path : path \in leafPaths(selections[k].selections) } :
          k \in DOMAIN selections }

RECURSIVE nodeAt(_, _)
nodeAt(selections, path) ==
  IF Len(path) = 1 THEN selections[Head(path)]
  ELSE nodeAt(selections[Head(path)].selections, Tail(path))

\* the keys of the selections from the selection set down to the position
RECURSIVE keysAlong(_, _)
keysAlong(selections, path) ==
  IF path = <<>> THEN <<>>
  ELSE <<keyOf(selections[Head(path)])>>
       \o keysAlong(selections[Head(path)].selections, Tail(path))

\* the type the selection at the position is read against, by the document
RECURSIVE enclosingType(_, _, _, _)
enclosingType(schema, parentType, selections, path) ==
  IF Len(path) = 1 THEN parentType
  ELSE enclosingType(
         schema,
         IF selections[Head(path)].kind = "Field"
           THEN fieldType(schema, parentType, selections[Head(path)].name)
           ELSE narrowedType(schema, parentType, selections[Head(path)].name),
         selections[Head(path)].selections, Tail(path))

\* the selections have a selection under the keys
RECURSIVE present(_, _)
present(selections, keys) ==
  \/ keys = <<>>
  \/ \E k \in DOMAIN selections :
       /\ keyOf(selections[k]) = Head(keys)
       /\ present(selections[k].selections, Tail(keys))

\* the selections with the selection at the position given a sub-selection
RECURSIVE graft(_, _, _)
graft(selections, path, subSelections) ==
  [selections EXCEPT ![Head(path)].selections =
     IF Len(path) = 1 THEN subSelections
     ELSE graft(selections[Head(path)].selections, Tail(path), subSelections)]

Front(keys) == SubSeq(keys, 1, Len(keys) - 1)

\* a field of scalar type at the position is in the result, or it is not in
\* the result either when it is given a sub-selection
ScalarLeafKept(schema, rootType, fragmentTypes, given, result, path) ==
  \/ present(result, keysAlong(given, path))
  \/ ~present(filterSelectionSet(schema, rootType, fragmentTypes,
                                 graft(given, path, <<Leaf("__typename")>>)).selectionSet,
              keysAlong(given, path))

LeafKept(schema, rootType, fragmentTypes, given, result, path) ==
  present(result, Front(keysAlong(given, path))) =>
    IF nodeAt(given, path).name = "__typename"
      THEN KindOf(schema, enclosingType(schema, rootType, given, path))
             \in {"Object", "Interface", "Union"}
           => present(result, keysAlong(given, path))
      ELSE KindOf(schema, fieldType(schema,
                                    enclosingType(schema, rootType, given, path),
                                    nodeAt(given, path).name)) = "Scalar"
           => ScalarLeafKept(schema, rootType, fragmentTypes, given, result, path)

\* C18: a __typename field under an object, interface or union type is in the
\* returned operation when the selections enclosing it are, and a field whose
\* type on the target schema is a scalar is not removed for having no
\* sub-selection: where it is gone it would be gone with a sub-selection too.
C18_TypenameAndScalarLeavesKept ==
  pc = "done" =>
    \A k \in DOMAIN operations :
      UniqueSiblings(operations[k].selectionSet) =>
        \A path \in leafPaths(operations[k].selectionSet) :
          LeafKept(targetSchema, rootTypeOf(targetSchema, operations[k].operation),
                   validFragmentsWithType, operations[k].selectionSet,
                   output[k].selectionSet, path)

\* the valid fragment definitions of the document, each with its selection
\* set filtered against its type
filteredFragments ==
  [k \in DOMAIN validFragments |->
     [validFragments[k] EXCEPT
        !.selectionSet =
          filterSelectionSet(targetSchema,
                             getType(targetSchema, validFragments[k].typeCondition),
                             validFragmentsWithType,
                             validFragments[k].selectionSet).selectionSet]]

\* the fragments the filtered operation reaches, by its own spreads
ownFragments(operation) ==
  reachedBy(filteredFragments, operation) \cap fragmentNames(filteredFragments)

\* the variables the filtered operation refers to, itself or by such a fragment
ownVariables(operation) == variablesReachedBy(filteredFragments, operation)

\* C19: in a document of several operations each operation is treated on its
\* own: the variable definitions kept on an operation are those of its
\* variables that its filtered selection set or a fragment it reaches refers
\* to, and the fragment definitions returned are the fragments that at least
\* one operation reaches.
C19_OperationsIndependent ==
  pc = "done" =>
    /\ \A k \in DOMAIN operations :
         Range(output[k].variableDefinitions)
           = Range(operations[k].variableDefinitions) \cap ownVariables(output[k])
    /\ fragmentNames(output)
         = UNION { ownFragments(output[k]) : k \in DOMAIN operations }

----------------------------------------------------------------------------
(* The default merged resolver: further claims.                             *)

\* the errors attached to the parent of the call for what is below the field
descendantErrors ==
  childrenErrors(errorsOf(call.parent), getResponseKeyFromInfo(call.info))

\* the delegation of the root field returned one error, at a field below a
\* field of the delegated object, and the caller selected both
OneErrorBelowField(root) ==
  /\ Len(root.result.errors) = 1
  /\ Len(root.result.errors[1].path) = 3
  /\ \E k \in DOMAIN root.field.selections :
       /\ responseKeyOf(root.field.selections[k]) = root.result.errors[1].path[2]
       /\ \E j \in DOMAIN root.field.selections[k].selections :
            responseKeyOf(root.field.selections[k].selections[j])
              = root.result.errors[1].path[3]

\* C20: when the errors attached to the parent are all of descendants of the
\* field being resolved, the default merged resolver throws nothing: it
\* returns the value of the field with exactly those errors attached, their
\* paths relative to the field; resolving the descendant then throws its
\* error, so the merged result holds the error at the descendant's path.
C20_DescendantErrorsForwarded ==
  /\ (/\ outcome.kind # "none"
      /\ descendantErrors # <<>>
      /\ Len(descendantErrors) = Len(errorsOf(call.parent)))
       => /\ outcome.kind = "return"
          /\ propertiesOf(outcome.value)
               = propertiesOf(get(call.parent, getResponseKeyFromInfo(call.info)))
          /\ errorsOf(outcome.value) = relativeErrors(descendantErrors)
  /\ (resolverPc = "done" /\ OneErrorBelowField(roots[1]))
       => mergedErrors
            = << GraphQLError(roots[1].result.errors[1].message,
                              <<responseKeyOf(roots[1].field)>>
                                \o Tail(roots[1].result.errors[1].path)) >>

\* C20, its case: the field data below addressByUser was resolved on a parent
\* that carries only the error of data.zip, and its value came back with that
\* error attached at the path [zip].
C20_Witness ==
  /\ outcome.kind = "return"
  /\ getResponseKeyFromInfo(call.info) = "data"
  /\ errorsOf(call.parent) = <<GraphQLError("failed", <<"data", "zip">>)>>
  /\ errorsOf(outcome.value) = <<GraphQLError("failed", <<"zip">>)>>

----------------------------------------------------------------------------
(* WrapQuery and ExtractField in a delegation: the request goes through the *)
(* transforms, is executed against the sub-schema of the WrapQuery test,    *)
(* and the result goes back through the transforms in reverse.              *)

MaxWrapSelections == 2

errorValue == [t |-> "error"]

\* new WrapQuery(path, wrapper, extractor)
WrapQuery(path, wrapper, extractor) ==
  [name |-> "WrapQuery", path |-> path, to |-> <<>>,
   wrapper |-> wrapper, extractor |-> extractor]

\* new ExtractField({from, to})
ExtractField(from, to) ==
  [name |-> "ExtractField", path |-> from, to |-> to,
   wrapper |-> "none", extractor |-> "none"]

LowerCase == "abcdefghijklmnopqrstuvwxyz"
UpperCase == "ABCDEFGHIJKLMNOPQRSTUVWXYZ"

\* character.toUpperCase(), of a character of a name or of no character
toUpperCase(character) ==
  IF \E k \in 1..Len(LowerCase) : SubSeq(LowerCase, k, k) = character
    THEN SubSeq(UpperCase,
                CHOOSE k \in 1..Len(LowerCase) : SubSeq(LowerCase, k, k) = character,
                CHOOSE k \in 1..Len(LowerCase) : SubSeq(LowerCase, k, k) = character)
    ELSE character

\* 'address' + oldFieldName.charAt(0).toUpperCase() + oldFieldName.slice(1)
prefixed(fieldName) ==
  IF fieldName = "" THEN "address"
  ELSE "address" \o toUpperCase(SubSeq(fieldName, 1, 1))
                 \o SubSeq(fieldName, 2, Len(fieldName))

\* { kind: Kind.SELECTION_SET, selections }
SelectionSet(selections) == [t |-> "SelectionSet", selections |-> selections]

\* node.selectionSet: the field of a parsed document has selections or it has
\* no selection set
selectionSetOf(node) ==
  IF node.selections = <<>> THEN undefinedValue ELSE SelectionSet(node.selections)

\* { ...node, selectionSet }
withSelectionSet(node, selectionSet) ==
  [node EXCEPT !.selections = IF looselyNull(selectionSet) THEN <<>>
                              ELSE selectionSet.selections]

\* the wrapper of the test: fragments as they are, a field by its new name;
\* subtree.selections throws when the field has no selection set
prefixAddress(subtree) ==
  IF looselyNull(subtree) THEN errorValue
  ELSE SelectionSet([k \in DOMAIN subtree.selections |->
                       IF subtree.selections[k].kind = "Field"
                         THEN Field(prefixed(subtree.selections[k].name), <<>>, <<>>)
                         ELSE subtree.selections[k]])

\* this.wrapper(subtree): the wrapper of the first WrapQuery of the test, or
\* that of the second, subtree => subtree
applyWrapper(wrapper, subtree) ==
  IF wrapper = "prefixAddress" THEN prefixAddress(subtree) ELSE subtree

\* the extractor of the test reads two properties of the result, which
\* throws on a result that is undefined or null
extractAddress(result) ==
  IF looselyNull(result) THEN errorValue
  ELSE Object([key \in {"streetAddress", "zip"} |->
                 get(result, IF key = "zip" THEN "addressZip"
                                            ELSE "addressStreetAddress")],
              <<>>)

applyExtractor(extractor, result) ==
  IF extractor = "address" THEN extractAddress(result) ELSE result

\* the path leads to a field of the selections, by field names
RECURSIVE pathResolves(_, _)
pathResolves(selections, path) ==
  \E k \in DOMAIN selections :
    /\ selections[k].kind = "Field"
    /\ selections[k].name = Head(path)
    /\ Len(path) > 1 => pathResolves(selections[k].selections, Tail(path))

\* the selection set of the field the path leads to
RECURSIVE subtreeAt(_, _)
subtreeAt(selections, path) ==
  LET k == CHOOSE j \in DOMAIN selections :
             /\ selections[j].kind = "Field"
             /\ selections[j].name = Head(path)
             /\ Len(path) > 1 => pathResolves(selections[j].selections, Tail(path))
  IN IF Len(path) = 1 THEN selections[k].selections
     ELSE subtreeAt(selections[k].selections, Tail(path))

\* the selections with the selection set of the fields at the path replaced
RECURSIVE replaceAt(_, _, _)
replaceAt(selections, path, subtree) ==
  [k \in DOMAIN selections |->
     IF selections[k].kind = "Field" /\ selections[k].name = Head(path)
       THEN IF Len(path) = 1
              THEN [selections[k] EXCEPT !.selections = subtree]
              ELSE [selections[k] EXCEPT
                      !.selections = replaceAt(selections[k].selections,
                                               Tail(path), subtree)]
       ELSE selections[k]]

\* the data with the value at the path replaced
RECURSIVE setAt(_, _, _)
setAt(data, path, value) ==
  Object([key \in DOMAIN propertiesOf(data) \cup {Head(path)} |->
            IF key = Head(path)
              THEN IF Len(path) = 1 THEN value
                   ELSE setAt(get(data, key), Tail(path), value)
              ELSE get(data, key)],
         <<>>)

\* the value nested under the keys of the path
RECURSIVE nested(_, _)
nested(path, value) ==
  IF path = <<>> THEN value
  ELSE Object([key \in {Head(path)} |-> nested(Tail(path), value)], <<>>)

\* the path of the transform resolves in the request
resolvesInRequest(transform, selections) ==
  /\ pathResolves(selections, transform.path)
  /\ transform.name = "ExtractField" => pathResolves(selections, transform.to)

\* the data holds a value under the keys of the path
RECURSIVE hasValueAt(_, _)
hasValueAt(data, path) ==
  /\ data.t = "object"
  /\ Head(path) \in DOMAIN data.properties
  /\ data.properties[Head(path)] # undefinedValue
  /\ Len(path) > 1 => hasValueAt(data.properties[Head(path)], Tail(path))

\* the path of the transform resolves in the data of the result
resolvesInResult(transform, data) ==
  hasValueAt(data, IF transform.name = "ExtractField" THEN transform.to
                                                      ELSE transform.path)

\* what a hook of the request comes to: the selections it returns, or that
\* it threw
Returned(selections) == [threw |-> FALSE, selections |-> selections]
Threw == [threw |-> TRUE, selections |-> <<>>]

\* WrapQuery going through the selections with the path left to go: the
\* selection set of a field the path leads to is replaced by what the
\* wrapper returns for it, and what the wrapper throws is thrown on
RECURSIVE wrapAt(_, _, _)
wrapAt(selections, path, wrapper) ==
  IF selections = <<>> THEN Returned(<<>>)
  ELSE LET node == Head(selections)
           wrapped == applyWrapper(wrapper, selectionSetOf(node))
           below == wrapAt(node.selections, Tail(path), wrapper)
           first ==
             IF node.kind # "Field" \/ node.name # Head(path)
               THEN Returned(<<node>>)
             ELSE IF Len(path) = 1
               THEN IF wrapped = errorValue THEN Threw
                    ELSE Returned(<<withSelectionSet(node, wrapped)>>)
             ELSE IF below.threw THEN Threw
             ELSE Returned(<<[node EXCEPT !.selections = below.selections]>>)
           rest == wrapAt(Tail(selections), path, wrapper)
       IN IF first.threw \/ rest.threw THEN Threw
          ELSE Returned(first.selections \o rest.selections)

\* ExtractField looking for the selection set to move: that of the first
\* field the path leads to, undefined when there is none
RECURSIVE selectionAt(_, _)
selectionAt(selections, path) ==
  IF selections = <<>> THEN undefinedValue
  ELSE IF Head(selections).kind # "Field" \/ Head(selections).name # Head(path)
    THEN selectionAt(Tail(selections), path)
  ELSE IF Len(path) = 1 THEN selectionSetOf(Head(selections))
  ELSE IF selectionAt(Head(selections).selections, Tail(path)) # undefinedValue
    THEN selectionAt(Head(selections).selections, Tail(path))
  ELSE selectionAt(Tail(selections), path)

\* WrapQuery going through the data with the path left to go: where the data
\* holds nothing under the next key it is left as it is, the value at the
\* end of the path is replaced by what the extractor returns for it
RECURSIVE extractAt(_, _, _)
extractAt(data, path, extractor) ==
  IF looselyNull(data) THEN data
  ELSE IF get(data, Head(path)) = undefinedValue THEN data
  ELSE LET below == IF Len(path) = 1
                      THEN applyExtractor(extractor, get(data, Head(path)))
                      ELSE extractAt(get(data, Head(path)), Tail(path), extractor)
       IN IF below = errorValue THEN errorValue
          ELSE setAt(data, <<Head(path)>>, below)

\* a slip: the hooks act on a path that does not resolve
wrapTransformResult_Unchecked(transform, data) ==
  IF transform.name = "WrapQuery"
    THEN IF applyExtractor(transform.extractor, valueAt(data, transform.path))
              = errorValue
           THEN errorValue
           ELSE setAt(data, transform.path,
                      applyExtractor(transform.extractor,
                                     valueAt(data, transform.path)))
    ELSE nested(transform.path, valueAt(data, transform.to))

\* transformRequest of WrapQuery and of ExtractField
wrapTransformRequest(transform, selections) ==
  IF transform.name = "WrapQuery"
    THEN wrapAt(selections, transform.path, transform.wrapper)
  ELSE IF looselyNull(selectionAt(selections, transform.path))
    THEN Returned(selections)
    ELSE Returned(replaceAt(selections, transform.to,
                            selectionAt(selections, transform.path).selections))

\* transformResult of WrapQuery and of ExtractField
wrapTransformResult(transform, data) ==
  IF transform.name = "WrapQuery"
    THEN extractAt(data, transform.path, transform.extractor)
  ELSE IF valueAt(data, transform.to) = undefinedValue THEN data
  ELSE nested(transform.path, valueAt(data, transform.to))

\* the user of the sub-schema of the test
userData ==
  Object([key \in {"id", "addressStreetAddress", "addressZip"} |->
            CASE key = "id" -> Text("user1")
              [] key = "addressStreetAddress" -> Text("Windy Shore 21 A 7")
              [] OTHER -> Text("12345")],
         <<>>)

\* the names of the fields selected
fieldNames(selections) ==
  {selections[k].name : k \in {j \in DOMAIN selections : selections[j].kind = "Field"}}

\* the sub-schema executes the request: userById with the fields of User
executeWrapped(selections) ==
  IF pathResolves(selections, <<"userById">>)
    THEN Object([key \in {"userById"} |->
                   Object([f \in fieldNames(subtreeAt(selections, <<"userById">>))
                                   \cap DOMAIN userData.properties |->
                             userData.properties[f]],
                          <<>>)],
                <<>>)
    ELSE Object(NoProperties, <<>>)

WrapPaths == {<<"userById">>, <<"userById", "zip">>, <<"user">>}

WrapTransforms ==
  { WrapQuery(path, functions[1], functions[2]) :
      path \in WrapPaths,
      functions \in {<<"prefixAddress", "address">>, <<"identity", "identity">>} }
  \cup { ExtractField(<<"userById", "zip">>, <<"userById">>),
         ExtractField(<<"user", "zip">>, <<"user">>) }

WrapPipelines == SeqsUpTo(WrapTransforms, MaxTransforms)

\* the request of a delegation to userById, selecting fields of the address,
\* each without a selection set or zip with one
WrapRequests ==
  { <<Field("userById", <<idArg>>, selections)>> :
      selections \in SeqsUpTo({Leaf("streetAddress"), Leaf("zip"), Leaf("id"),
                               Field("zip", <<>>, <<Leaf("id")>>)},
                              MaxWrapSelections) \ {<<>>} }

\* delegateToSchema is called with the transforms
delegateWrapped ==
  /\ wrapPc = "idle"
  /\ wrapTransforms' \in WrapPipelines
  /\ wrapRequest' \in WrapRequests
  /\ wrapStep' = 0
  /\ wrapPc' = "request"
  /\ UNCHANGED <<wrapResult, wrapApplied, wrapBefore>>
  /\ UNCHANGED <<filterVars, pipelineVars, resolverVars, concatenateVars>>

\* the next transformRequest, in the order of the transforms; a hook that
\* threw ends the delegation
TransformWrappedRequest ==
  /\ wrapPc = "request"
  /\ wrapStep < Len(wrapTransforms)
  /\ wrapApplied' = requestOrder(Len(wrapTransforms), wrapStep + 1)
  /\ wrapBefore' = wrapRequest
  /\ IF wrapTransformRequest(wrapTransforms[wrapApplied'], wrapRequest).threw
       THEN /\ wrapPc' = "thrown"
            /\ UNCHANGED wrapRequest
       ELSE /\ wrapRequest' = wrapTransformRequest(wrapTransforms[wrapApplied'],
                                                   wrapRequest).selections
            /\ UNCHANGED wrapPc
  /\ wrapStep' = wrapStep + 1
  /\ UNCHANGED <<wrapTransforms, wrapResult>>
  /\ UNCHANGED <<filterVars, pipelineVars, resolverVars, concatenateVars>>

\* the request is executed against the sub-schema
ExecuteWrapped ==
  /\ wrapPc = "request"
  /\ wrapStep = Len(wrapTransforms)
  /\ wrapResult' = executeWrapped(wrapRequest)
  /\ wrapStep' = 0
  /\ wrapApplied' = 0
  /\ wrapPc' = "result"
  /\ UNCHANGED <<wrapTransforms, wrapRequest, wrapBefore>>
  /\ UNCHANGED <<filterVars, pipelineVars, resolverVars, concatenateVars>>

\* the next transformResult, in the reverse order of the transforms; a hook
\* that threw ends the delegation
TransformWrappedResult ==
  /\ wrapPc = "result"
  /\ wrapStep < Len(wrapTransforms)
  /\ wrapResult # errorValue
  /\ wrapApplied' = responseOrder(Len(wrapTransforms), wrapStep + 1)
  /\ wrapBefore' = wrapResult
  /\ wrapResult' = wrapTransformResult(wrapTransforms[wrapApplied'], wrapResult)
  /\ wrapStep' = wrapStep + 1
  /\ UNCHANGED <<wrapTransforms, wrapPc, wrapRequest>>
  /\ UNCHANGED <<filterVars, pipelineVars, resolverVars, concatenateVars>>

\* the delegation returns, or throws what a hook threw
ReturnWrapped ==
  /\ \/ wrapPc = "thrown"
     \/ /\ wrapPc = "result"
        /\ wrapStep = Len(wrapTransforms) \/ wrapResult = errorValue
  /\ wrapPc' = "done"
  /\ UNCHANGED <<wrapTransforms, wrapStep, wrapRequest, wrapResult, wrapApplied,
                 wrapBefore>>
  /\ UNCHANGED <<filterVars, pipelineVars, resolverVars, concatenateVars>>

WrapNext ==
  \/ delegateWrapped
  \/ TransformWrappedRequest
  \/ ExecuteWrapped
  \/ TransformWrappedResult
  \/ ReturnWrapped

WrapSpec == Init /\ [][WrapNext]_vars

\* the transforms of the test: WrapQuery at userById and at userById.zip
testTransforms ==
  << WrapQuery(<<"userById">>, "prefixAddress", "address"),
     WrapQuery(<<"userById", "zip">>, "identity", "identity") >>

\* C21: a WrapQuery or ExtractField whose path does not resolve in the
\* request or in the data of the result it is given hands back that request
\* or result unchanged and throws nothing; so does the second of the
\* transforms [WrapQuery(userById), WrapQuery(userById.zip)] on the result,
\* which has no value at userById.zip when it runs.
C21_UnresolvedPathPassThrough ==
  /\ (/\ wrapPc \in {"request", "thrown"}
      /\ wrapApplied # 0
      /\ ~resolvesInRequest(wrapTransforms[wrapApplied], wrapBefore))
       => /\ wrapPc = "request"
          /\ wrapRequest = wrapBefore
  /\ (/\ wrapPc = "result"
      /\ wrapApplied # 0
      /\ ~resolvesInResult(wrapTransforms[wrapApplied], wrapBefore))
       => wrapResult = wrapBefore
  /\ (/\ wrapPc = "result"
      /\ wrapTransforms = testTransforms
      /\ wrapApplied = 2)
       => /\ valueAt(wrapBefore, <<"userById", "zip">>) = undefinedValue
          /\ wrapResult = wrapBefore

\* C21, its case: of the transforms of the test the second has run on the
\* result of the query of the test, which holds the two fields of the user
\* under their prefixed names and nothing at userById.zip.
C21_Witness ==
  /\ wrapPc = "result"
  /\ wrapTransforms = testTransforms
  /\ wrapApplied = 2
  /\ fieldNames(subtreeAt(wrapRequest, <<"userById">>))
       = {"addressStreetAddress", "addressZip"}
  /\ wrapResult = wrapBefore
  /\ valueAt(wrapResult, <<"userById", "addressZip">>) = Text("12345")

----------------------------------------------------------------------------
(* FilterToSchema.transformRequest and the request it is given.             *)

\* C22: transformRequest does not modify what it is given: the document and
\* the request are after the call as they were at the call, and the request
\* returned has the properties of the request given with the same values,
\* the document apart: the values of the variables are carried over as they
\* are, those of variables whose definitions were removed among them.
C22_InputUnmodified ==
  pc = "done" =>
    /\ Request(document, variables) = givenRequest
    /\ DOMAIN transformedRequest = DOMAIN givenRequest
    /\ \A property \in DOMAIN givenRequest \ {"document"} :
         transformedRequest[property] = givenRequest[property]
    /\ transformedRequest.document = output

\* C22, its case: the request returned has another document than the one
\* given, an operation of it lost the definition of a variable, and the value
\* of that variable is still among the variables of the request returned.
C22_Witness ==
  /\ pc = "done"
  /\ transformedRequest.document # givenRequest.document
  /\ \E k \in DOMAIN operations :
       \E name \in Range(operations[k].variableDefinitions) :
         /\ \A j \in DOMAIN operations :
              name \notin Range(output[j].variableDefinitions)
         /\ name \in DOMAIN transformedRequest.variables
         /\ transformedRequest.variables[name] = givenRequest.variables[name]

----------------------------------------------------------------------------
(* The default merged resolver and aliases.                                 *)

\* what the engine makes of the outcome of a resolver: null where it threw
resolvedValue(result) ==
  IF result.kind = "throw" THEN nullValue ELSE mergedValueOf(result.value)

\* C23: a proxied field requested under an alias resolves to what the parent
\* holds under the alias, null included, whatever the parent holds under the
\* name of the field or under data.
C23_AliasResolvesToResponseKey ==
  (/\ outcome.kind # "none"
   /\ truthy(call.parent)
   /\ call.info.alias # NoName)
    => resolvedValue(outcome) = mergedValueOf(get(call.parent, call.info.alias))

----------------------------------------------------------------------------
(* concatenateTypeDefs.  A string is the sequence of its parts: a type      *)
(* definition is one part, a blank and a line break are one part each.      *)

MaxTypeDefs == 2

blank == " "
lineBreak == "\n"

\* an element of the array: a string, a function (by its name), a document
\* (by the string it prints as) or else
StringTypeDef(string) == [kind |-> "string", value |-> string]
DocumentTypeDef(printed) == [kind |-> "document", value |-> printed]
FunctionTypeDef(ref) == [kind |-> "function", value |-> <<ref>>]
NumberTypeDef == [kind |-> "number", value |-> <<"4">>]

whitespace(part) == part \in {blank, lineBreak}

\* string.trim()
RECURSIVE trimStart(_)
trimStart(string) ==
  IF string # <<>> /\ whitespace(Head(string)) THEN trimStart(Tail(string))
  ELSE string
RECURSIVE trimEnd(_)
trimEnd(string) ==
  IF string # <<>> /\ whitespace(string[Len(string)])
    THEN trimEnd(SubSeq(string, 1, Len(string) - 1))
    ELSE string
trim(string) == trimEnd(trimStart(string))

\* array.join('\n')
RECURSIVE join(_)
join(array) ==
  IF array = <<>> THEN <<>>
  ELSE IF Len(array) = 1 THEN array[1]
  ELSE array[1] \o <<lineBreak>> \o join(Tail(array))

\* lines 74-80: the elements of the array, each at its first occurrence
RECURSIVE uniqFrom(_, _)
uniqFrom(array, accumulator) ==
  IF array = <<>> THEN accumulator
  ELSE uniqFrom(Tail(array),
                IF \E k \in DOMAIN accumulator : accumulator[k] = Head(array)
                  THEN accumulator
                  ELSE Append(accumulator, Head(array)))
uniq(array) == uniqFrom(array, <<>>)

\* what a call leaves behind: the strings resolved so far, the functions
\* called so far, and whether it threw
Resolved(strings, refs, thrown) ==
  [strings |-> strings, refs |-> refs, thrown |-> thrown]

\* line 71: the value a call returns, as the one string it is
returned(resolved) ==
  Resolved(<<join(uniq([k \in DOMAIN resolved.strings |->
                          trim(resolved.strings[k])]))>>,
           resolved.refs, resolved.thrown)

\* line 57-60: resolvedTypeDefinitions.concat(the string the call returned)
concatReturned(resolved, inner) ==
  Resolved(resolved.strings \o inner.strings, inner.refs, inner.thrown)

\* lines 51-53: an element that has a kind, a document, becomes the string
\* it prints as
print(typeDef) ==
  IF typeDef.kind = "document" THEN StringTypeDef(typeDef.value) ELSE typeDef

\* lines 45-72, from the k-th element of the array on
RECURSIVE forEachFrom(_, _, _, _)
concatenateTypeDefs(typeDefinitions, calledFunctionRefs, functions) ==
  returned(forEachFrom(typeDefinitions, 1, Resolved(<<>>, calledFunctionRefs, FALSE),
                       functions))
forEachFrom(typeDefinitions, k, resolved, functions) ==
  IF k > Len(typeDefinitions) \/ resolved.thrown THEN resolved
  ELSE IF print(typeDefinitions[k]).kind = "function"
    THEN IF \E j \in DOMAIN resolved.refs :
              resolved.refs[j] = print(typeDefinitions[k]).value[1]
           THEN forEachFrom(typeDefinitions, k + 1, resolved, functions)
           ELSE forEachFrom(
                  typeDefinitions, k + 1,
                  concatReturned(
                    resolved,
                    concatenateTypeDefs(
                      functions[print(typeDefinitions[k]).value[1]],
                      Append(resolved.refs, print(typeDefinitions[k]).value[1]),
                      functions)),
                  functions)
  ELSE IF print(typeDefinitions[k]).kind = "string"
    THEN forEachFrom(typeDefinitions, k + 1,
                     Resolved(Append(resolved.strings, trim(print(typeDefinitions[k]).value)),
                              resolved.refs, FALSE),
                     functions)
  ELSE Resolved(resolved.strings, resolved.refs, TRUE)

\* the elements an array may hold
TypeDefs ==
  { StringTypeDef(<<"A">>), StringTypeDef(<<blank, "A", blank>>),
    StringTypeDef(<<"B">>), FunctionTypeDef("f"), FunctionTypeDef("g"),
    DocumentTypeDef(<<"A", lineBreak>>), NumberTypeDef }

TypeDefArrays == SeqsUpTo(TypeDefs, MaxTypeDefs)

\* what the two functions return: each may refer to the other and to itself
FunctionTables ==
  [ {"f", "g"} ->
      { <<StringTypeDef(<<"A">>), FunctionTypeDef("g")>>,
        <<FunctionTypeDef("f"), StringTypeDef(<<"B">>)>>,
        <<StringTypeDef(<<"A">>), StringTypeDef(<<"B">>)>>,
        <<DocumentTypeDef(<<"B", lineBreak>>), StringTypeDef(<<"A">>)>> } ]

\* concatenateTypeDefs is called on an array
concatenate ==
  /\ concatenatePc = "idle"
  /\ typeDefinitionsAry' \in TypeDefArrays
  /\ typeDefFunctions' \in FunctionTables
  /\ concatenatePc' = "called"
  /\ UNCHANGED concatenated
  /\ UNCHANGED <<filterVars, pipelineVars, resolverVars, wrapVars>>

\* the call returns or throws
ReturnConcatenated ==
  /\ concatenatePc = "called"
  /\ concatenated' = concatenateTypeDefs(typeDefinitionsAry, <<>>, typeDefFunctions)
  /\ concatenatePc' = "returned"
  /\ UNCHANGED <<typeDefinitionsAry, typeDefFunctions>>
  /\ UNCHANGED <<filterVars, pipelineVars, resolverVars, wrapVars>>

ConcatenateNext ==
  \/ concatenate
  \/ ReturnConcatenated

ConcatenateSpec == Init /\ [][ConcatenateNext]_vars

\* the trimmed strings of the array, documents as printed, and of what its
\* functions return, each
\* function looked into where it is first met, in the order they are met
RECURSIVE metFrom(_, _, _, _)
metFrom(typeDefinitions, k, met, functions) ==
  IF k > Len(typeDefinitions) THEN met
  ELSE IF print(typeDefinitions[k]).kind = "function"
    THEN IF \E j \in DOMAIN met.refs : met.refs[j] = print(typeDefinitions[k]).value[1]
           THEN metFrom(typeDefinitions, k + 1, met, functions)
           ELSE metFrom(typeDefinitions, k + 1,
                        metFrom(functions[print(typeDefinitions[k]).value[1]], 1,
                                Resolved(met.strings,
                                         Append(met.refs, print(typeDefinitions[k]).value[1]),
                                         FALSE),
                                functions),
                        functions)
  ELSE IF print(typeDefinitions[k]).kind = "string"
    THEN metFrom(typeDefinitions, k + 1,
                 Resolved(Append(met.strings, trim(print(typeDefinitions[k]).value)),
                          met.refs, FALSE),
                 functions)
  ELSE Resolved(met.strings, met.refs, TRUE)

\* the call was given strings, documents and functions only
StringsAndFunctions ==
  ~metFrom(typeDefinitionsAry, 1, Resolved(<<>>, <<>>, FALSE), typeDefFunctions).thrown

\* C24: concatenateTypeDefs calls every typeDef function at most once over
\* the whole recursion, so it returns also where the functions return arrays
\* that refer to each other, and what it returns holds each distinct trimmed
\* type definition exactly once, in the order of first occurrence, one on a
\* line.
C24_EachTypeDefOnce ==
  (concatenatePc = "returned" /\ StringsAndFunctions) =>
    /\ \A j, k \in DOMAIN concatenated.refs :
         concatenated.refs[j] = concatenated.refs[k] => j = k
    /\ concatenated.strings
         = << join(uniq(metFrom(typeDefinitionsAry, 1, Resolved(<<>>, <<>>, FALSE),
                                typeDefFunctions).strings)) >>

====
